---- MODULE Spec2Model ----
(***************************************************************************)
(* RSS Guard: the feed tree model (FeedsModel).                            *)
(*                                                                         *)
(* The model covers the item tree (root, categories, feeds, recycle bin),  *)
(* its assembly from the flat database rows, the structural mutations      *)
(* (add / remove / reassign) and the scheduled auto-update decision pass.  *)
(***************************************************************************)
EXTENDS Integers, Sequences, FiniteSets, TLC

\* ------------------------------------------------------------------ bounds
\* Largest number of category rows / feed rows the database holds at load.
MaxCats == 2
MaxFeeds == 2
\* Largest number of rows of both tables together that a load reads.
MaxLoadRows == 3
\* Largest number of live item objects while the tree is being edited.
MaxHeap == 4
\* Largest number of rows loaded before the tree is edited.
MaxTreeRows == 2
\* Largest auto-update interval of a feed and the number of passes followed.
MaxInterval == 3
MaxPasses == 6
\* Largest number of rows of the Messages table.
MaxMessages == 2
MaxCalls == 2

\* ------------------------------------------------------- program constants
\* Item objects are named by their address. The root item and the recycle
\* bin are created by the constructor of the model.
m_rootItem == 0
m_recycleBin == 1
\* Id of the (virtual) parent of all top-level items.
NO_PARENT_CATEGORY == -1

Nodes == 0..(MaxCats + MaxFeeds + 1)
\* The null pointer.
NoNode == MaxCats + MaxFeeds + 2

\* Ids of the category rows; one id more can be named as a parent than there
\* are rows, so that a declared parent may be missing from the table.
CategoryIds == 1..MaxCats
ParentIds == {NO_PARENT_CATEGORY} \cup (1..(MaxCats + 1))

\* A category row with id k is materialised as the object at address k + 1,
\* the j-th feed row as the object at address MaxCats + 1 + j.
CategoryNode(id) == id + 1
FeedNode(j) == MaxCats + 1 + j

AutoUpdateTypes == {"DontAutoUpdate", "DefaultAutoUpdate", "SpecificAutoUpdate"}

VARIABLES
    \* the item tree
    heap,           \* the live (allocated, not deleted) item objects
    kind,           \* RootItem::kind() of every object ("Free" when not live)
    childItems,     \* RootItem::m_childItems
    parent,         \* RootItem::m_parentItem
    \* loadFromDatabase and its locals
    pc,             \* where the model is: in the load or idle
    categories,     \* CategoryAssignment still to be attached
    scan,           \* the index i of the scan in assembleCategories
    assignments,    \* QHash<int, RootItem*> of assembleCategories
    feeds,          \* FeedAssignment to be attached
    declared,       \* the loaded rows: object -> declared parent id
    \* auto-update attributes of the feeds
    autoUpdateType,
    autoUpdateInitialInterval,
    autoUpdateRemainingInterval,
    \* the last call of an operation of the model, with what it returned
    op,
    \* the scheduled decision passes
    passNo,         \* number of decision passes made
    startRemaining, \* the remaining interval each feed started with
    auto_update_now,  \* the argument of the last decision pass
    feeds_for_update, \* the list the last decision pass returned
    \* mergeModel
    title,          \* RootItem::title() of every object
    model,          \* the FeedsImportExportModel given to mergeModel
    merge,          \* the locals of mergeModel and what it returned
    \* the Messages table and the last markFeedsRead / markFeedsDeleted call
    messages,
    tx,
    \* the feed-update lock, the global auto-update counter and the last
    \* entry into a function that takes the lock
    lock,
    globalAutoUpdate,
    entry,
    running,                \* the function that took the lock last, and its lock calls
    \* the MessagesModel over the Messages table
    m_selectedItem,         \* MessagesModel::m_selectedItem
    m_messageHighlighter,   \* MessagesModel::m_messageHighlighter
    filter,                 \* the filter of the select statement
    records,                \* the rows the last run of the query fetched
    m_cache,                \* MessagesModelCache: row -> edited record
    call                    \* the last call on the messages and its steps

treeVars == <<heap, kind, childItems, parent>>
loadVars == <<pc, categories, scan, assignments, feeds, declared>>
feedVars == <<autoUpdateType, autoUpdateInitialInterval, autoUpdateRemainingInterval>>
passVars == <<passNo, startRemaining, auto_update_now, feeds_for_update>>
mergeVars == <<title, model, merge>>
viewVars == <<m_selectedItem, m_messageHighlighter, filter, records, m_cache, call>>
storeVars == <<messages, tx, viewVars>>
lockVars == <<lock, globalAutoUpdate, entry, running>>
extVars == <<mergeVars, storeVars, lockVars>>
vars == <<treeVars, loadVars, feedVars, op, passVars, extVars>>

\* --------------------------------------------------------------- sequences
IndexOf(s, x) == IF \E k \in 1..Len(s) : s[k] = x
                 THEN CHOOSE k \in 1..Len(s) : s[k] = x /\ \A j \in 1..(k - 1) : s[j] /= x
                 ELSE 0

RemoveAt(s, k) == [j \in 1..(Len(s) - 1) |-> IF j < k THEN s[j] ELSE s[j + 1]]

\* QList::removeOne: removes the first occurrence, if there is one.
RemoveOne(s, x) == IF IndexOf(s, x) = 0 THEN s ELSE RemoveAt(s, IndexOf(s, x))

Range(s) == {s[k] : k \in 1..Len(s)}

Occurrences(s, x) == Cardinality({k \in 1..Len(s) : s[k] = x})

\* All sequences without repetition over the set S, of length at most n.
RECURSIVE InjectiveSeqs(_, _)
InjectiveSeqs(S, n) ==
    IF n = 0 THEN {<<>>}
    ELSE LET shorter == InjectiveSeqs(S, n - 1)
         IN shorter \cup UNION {{Append(s, x) : x \in S \ Range(s)} :
                                  s \in {t \in shorter : Len(t) = n - 1}}

\* ------------------------------------------------------------ the item node
\* RootItem::appendChild: adds to the end of the child sequence and sets the
\* back-reference of the child.
ChildrenAfterAppend(ch, p, c) == [ch EXCEPT ![p] = Append(@, c)]
ParentAfterAppend(pa, p, c) == [pa EXCEPT ![c] = p]

\* RootItem::removeChild: removes the child by identity.
ChildrenAfterRemove(ch, p, c) == [ch EXCEPT ![p] = RemoveOne(@, c)]

\* The objects below the given ones through at most k child links.
RECURSIVE Below(_, _, _)
Below(ch, S, k) ==
    IF k = 0 THEN S
    ELSE LET next == S \cup UNION {Range(ch[n]) : n \in S}
         IN IF next = S THEN S ELSE Below(ch, next, k - 1)

\* A node with its whole subtree (what the destructor of RootItem deletes).
Subtree(ch, n) == Below(ch, {n}, Cardinality(Nodes))

\* The nodes that can be reached from the root item through child links.
Reachable == Subtree(childItems, m_rootItem)

\* RootItem::id(). The root item has the id of the virtual top-level parent.
ItemId(n) == IF n = m_rootItem THEN NO_PARENT_CATEGORY ELSE n - 1

\* RootItem::getRecursiveChildren: the descendants of a node in pre-order.
RECURSIVE PreOrder(_, _)
PreOrder(list, fuel) ==
    IF list = <<>> \/ fuel = 0 THEN <<>>
    ELSE <<Head(list)>> \o PreOrder(childItems[Head(list)] \o Tail(list), fuel - 1)

getRecursiveChildren(n) == PreOrder(childItems[n], Cardinality(Nodes))

\* ------------------------------------------------------ the database rows
\* A row is the pair the load builds for it: first is the declared parent id,
\* second the object created from the record.
CategoryRowSeqs(n) ==
    UNION {{[k \in 1..Len(s) |-> [first |-> f[k], second |-> CategoryNode(s[k])]] :
                f \in [1..Len(s) -> ParentIds]} :
           s \in InjectiveSeqs(CategoryIds, n)}

FeedRowSeqs(n) ==
    UNION {{[k \in 1..m |-> [first |-> f[k], second |-> FeedNode(k)]] :
                f \in [1..m -> ParentIds]} :
           m \in 0..n}

\* The ids of the category rows whose declared parent resolves: the parent is
\* the virtual top-level parent or a category of the rows that itself resolves.
RECURSIVE ResolvedIds(_, _)
ResolvedIds(rows, done) ==
    LET more == {ItemId(rows[k].second) : k \in {j \in 1..Len(rows) :
                     rows[j].first \in done \cup {NO_PARENT_CATEGORY}}}
    IN IF more \subseteq done THEN done ELSE ResolvedIds(rows, done \cup more)

Resolving(rows) == ResolvedIds(rows, {})

ValidForest(rows) == \A k \in 1..Len(rows) : ItemId(rows[k].second) \in Resolving(rows)

EmptyHash == [x \in {} |-> NoNode]

\* QHash::insert: a value stored under a key that is present replaces it.
HashInsert(h, k, v) == [x \in DOMAIN h \cup {k} |-> IF x = k THEN v ELSE h[x]]

\* A call: the operation, the item and the parent it was given, the outcome of
\* the database operation it made (stored), what it returned, the structural
\* notifications it emitted and the objects it deleted.
NoCall == [name |-> "none", node |-> NoNode, target |-> NoNode, stored |-> FALSE,
           result |-> FALSE, events |-> <<>>, freed |-> {}]

\* The state of loadFromDatabase when both queries have been read and the
\* hierarchy is about to be created, in a freshly constructed model: the root
\* item has no children, the recycle bin exists and is not attached yet.
LoadState(cats, frows) ==
    LET catNodes == {cats[k].second : k \in 1..Len(cats)}
        feedNodes == {frows[k].second : k \in 1..Len(frows)}
    IN /\ heap = {m_rootItem, m_recycleBin} \cup catNodes \cup feedNodes
       /\ kind = [n \in Nodes |->
                    IF n = m_rootItem THEN "Root"
                    ELSE IF n = m_recycleBin THEN "Bin"
                    ELSE IF n \in catNodes THEN "Category"
                    ELSE IF n \in feedNodes THEN "Feed"
                    ELSE "Free"]
       /\ childItems = [n \in Nodes |-> <<>>]
       /\ parent = [n \in Nodes |-> NoNode]
       /\ pc = "assembleCategories"
       /\ categories = cats
       /\ scan = 0
       /\ assignments = HashInsert(EmptyHash, NO_PARENT_CATEGORY, m_rootItem)
       /\ feeds = frows
       /\ declared = [n \in catNodes \cup feedNodes |->
                        IF n \in catNodes
                        THEN cats[CHOOSE k \in 1..Len(cats) : cats[k].second = n].first
                        ELSE frows[CHOOSE k \in 1..Len(frows) : frows[k].second = n].first]
       /\ op = NoCall

\* Feeds that are never auto-updated; the attributes of objects that are no
\* feeds are never read.
NoAutoUpdate ==
    /\ autoUpdateType = [n \in Nodes |-> "DontAutoUpdate"]
    /\ autoUpdateInitialInterval = [n \in Nodes |-> 0]
    /\ autoUpdateRemainingInterval = [n \in Nodes |-> 0]
    /\ passNo = 0
    /\ startRemaining = [n \in Nodes |-> 0]
    /\ auto_update_now = FALSE
    /\ feeds_for_update = <<>>

\* The null pointer to an item of the import source.
NoSourceItem == "NULL"

\* No import is going on, the Messages table is empty, nobody holds the lock.
NoMerge == [pc |-> "none", original_parents |-> <<>>, new_parents |-> <<>>,
            target_parent |-> NoNode, source_parent |-> NoSourceItem, todo |-> <<>>,
            some_feed_category_error |-> FALSE, output_message |-> "", result |-> FALSE,
            cloneOf |-> EmptyHash, visited |-> EmptyHash, descended |-> EmptyHash,
            failed |-> {}]

NoModel == [rootItem |-> NoSourceItem]

NoTransaction == [name |-> "none"]

NoEntry == [name |-> "none", refused |-> FALSE, held |-> "free", emitted |-> <<>>]

\* No function that takes the lock has run.
NoRunning == [name |-> "none", active |-> FALSE, steps |-> <<>>]

\* No call of the MessagesModel yet.
NoMessageCall ==
    [no |-> 0, name |-> "none", rows |-> {}, value |-> 0, steps |-> <<>>,
     notified |-> FALSE, result |-> FALSE, stored |-> <<>>, column |-> "",
     answers |-> [asked |-> FALSE, before |-> FALSE, store |-> FALSE, after |-> FALSE]]

\* No MessagesModel is constructed.
NoMessagesModel ==
    /\ m_selectedItem = "nullptr"
    /\ m_messageHighlighter = "NoHighlighting"
    /\ filter = ""
    /\ records = <<>>
    /\ m_cache = <<>>
    /\ call = NoMessageCall

NoImportNoMessagesNoLock ==
    /\ title = [n \in Nodes |-> ""]
    /\ model = NoModel
    /\ merge = NoMerge
    /\ messages = <<>>
    /\ tx = NoTransaction
    /\ NoMessagesModel
    /\ lock = "free"
    /\ globalAutoUpdate = [enabled |-> FALSE, initial |-> 0, remaining |-> 0]
    /\ entry = NoEntry
    /\ running = NoRunning

\* ------------------------------------------------------- loadFromDatabase
\* As AssembleCategoriesAttach, with every category put under the root item.
AssembleCategoriesAttach_UnderRoot ==
    /\ pc = "assembleCategories"
    /\ scan < Len(categories)
    /\ categories[scan + 1].first \in DOMAIN assignments
    /\ LET row == categories[scan + 1]
       IN /\ childItems' = ChildrenAfterAppend(childItems, m_rootItem, row.second)
          /\ parent' = ParentAfterAppend(parent, m_rootItem, row.second)
          /\ assignments' = HashInsert(assignments, ItemId(row.second), row.second)
    /\ categories' = RemoveAt(categories, scan + 1)
    /\ UNCHANGED <<heap, kind, pc, scan, feeds, declared, feedVars, op, passVars, extVars>>

\* One iteration of the for loop of assembleCategories whose row names a
\* parent that is already added.
AssembleCategoriesAttach ==
    /\ pc = "assembleCategories"
    /\ scan < Len(categories)
    /\ categories[scan + 1].first \in DOMAIN assignments
    /\ LET row == categories[scan + 1]
           p == assignments[row.first]
       IN /\ childItems' = ChildrenAfterAppend(childItems, p, row.second)
          /\ parent' = ParentAfterAppend(parent, p, row.second)
          /\ assignments' = HashInsert(assignments, ItemId(row.second), row.second)
    /\ categories' = RemoveAt(categories, scan + 1)
    /\ UNCHANGED <<heap, kind, pc, scan, feeds, declared, feedVars, op, passVars, extVars>>

\* One iteration of the for loop whose row names a parent that is not added.
AssembleCategoriesSkip ==
    /\ pc = "assembleCategories"
    /\ scan < Len(categories)
    /\ categories[scan + 1].first \notin DOMAIN assignments
    /\ scan' = scan + 1
    /\ UNCHANGED <<treeVars, pc, categories, assignments, feeds, declared, feedVars, op, passVars, extVars>>

\* The for loop is over and the while loop finds rows left: it scans again.
AssembleCategoriesRescan ==
    /\ pc = "assembleCategories"
    /\ scan >= Len(categories)
    /\ categories /= <<>>
    /\ scan' = 0
    /\ UNCHANGED <<treeVars, pc, categories, assignments, feeds, declared, feedVars, op, passVars, extVars>>

\* The while loop finds no row left: assembleCategories returns.
AssembleCategoriesDone ==
    /\ pc = "assembleCategories"
    /\ scan >= Len(categories)
    /\ categories = <<>>
    /\ pc' = "assembleFeeds"
    /\ scan' = 0
    /\ assignments' = EmptyHash
    /\ UNCHANGED <<treeVars, categories, feeds, declared, feedVars, op, passVars, extVars>>

\* categoriesForItem: the categories below a node, by id, found breadth first
\* through the categories only; the first category found under an id is kept.
RECURSIVE CategoriesScan(_, _, _)
CategoriesScan(parents, found, fuel) ==
    IF parents = <<>> \/ fuel = 0 THEN found
    ELSE LET item == Head(parents)
         IN IF kind[item] = "Category"
            THEN CategoriesScan(Tail(parents) \o childItems[item],
                                IF ItemId(item) \in DOMAIN found THEN found
                                ELSE HashInsert(found, ItemId(item), item),
                                fuel - 1)
            ELSE CategoriesScan(Tail(parents), found, fuel - 1)

categoriesForItem(root) == CategoriesScan(childItems[root], EmptyHash, Cardinality(Nodes))

allCategories == categoriesForItem(m_rootItem)

\* As AttachFeeds, with a feed whose category is not found put under the root
\* item.
RECURSIVE AttachFeeds_LooseUnderRoot(_, _, _, _)
AttachFeeds_LooseUnderRoot(rows, cats, ch, pa) ==
    IF rows = <<>> THEN [ch |-> ch, pa |-> pa]
    ELSE LET feed == Head(rows)
             p == IF feed.first \in DOMAIN cats THEN cats[feed.first] ELSE m_rootItem
         IN AttachFeeds_LooseUnderRoot(Tail(rows), cats,
                                       ChildrenAfterAppend(ch, p, feed.second),
                                       ParentAfterAppend(pa, p, feed.second))

\* The foreach loop of assembleFeeds over the rows left, on the tree (ch, pa).
RECURSIVE AttachFeeds(_, _, _, _)
AttachFeeds(rows, cats, ch, pa) ==
    IF rows = <<>> THEN [ch |-> ch, pa |-> pa]
    ELSE LET feed == Head(rows)
         IN IF feed.first = NO_PARENT_CATEGORY
            THEN AttachFeeds(Tail(rows), cats,
                             ChildrenAfterAppend(ch, m_rootItem, feed.second),
                             ParentAfterAppend(pa, m_rootItem, feed.second))
            ELSE IF feed.first \in DOMAIN cats
            THEN AttachFeeds(Tail(rows), cats,
                             ChildrenAfterAppend(ch, cats[feed.first], feed.second),
                             ParentAfterAppend(pa, cats[feed.first], feed.second))
            ELSE AttachFeeds(Tail(rows), cats, ch, pa)

assembleFeeds ==
    /\ pc = "assembleFeeds"
    /\ LET tree == AttachFeeds(feeds, allCategories, childItems, parent)
       IN /\ childItems' = tree.ch
          /\ parent' = tree.pa
    /\ pc' = "appendBin"
    /\ feeds' = <<>>
    /\ UNCHANGED <<heap, kind, categories, scan, assignments, declared, feedVars, op, passVars, extVars>>

\* As AppendRecycleBin, with the recycle bin put in front of the loaded items.
AppendRecycleBin_InFront ==
    /\ pc = "appendBin"
    /\ childItems' = [childItems EXCEPT ![m_rootItem] = <<m_recycleBin>> \o @]
    /\ parent' = ParentAfterAppend(parent, m_rootItem, m_recycleBin)
    /\ pc' = "idle"
    /\ declared' = EmptyHash
    /\ op' = [NoCall EXCEPT !.name = "loadFromDatabase", !.result = TRUE]
    /\ UNCHANGED <<heap, kind, categories, scan, assignments, feeds, feedVars, passVars, extVars>>

\* The end of loadFromDatabase: the recycle bin is added as the last item.
AppendRecycleBin ==
    /\ pc = "appendBin"
    /\ childItems' = ChildrenAfterAppend(childItems, m_rootItem, m_recycleBin)
    /\ parent' = ParentAfterAppend(parent, m_rootItem, m_recycleBin)
    /\ pc' = "idle"
    /\ declared' = EmptyHash
    /\ op' = [NoCall EXCEPT !.name = "loadFromDatabase", !.result = TRUE]
    /\ UNCHANGED <<heap, kind, categories, scan, assignments, feeds, feedVars, passVars, extVars>>

InitLoad ==
    /\ NoImportNoMessagesNoLock
    /\ \E cats \in CategoryRowSeqs(MaxCats), frows \in FeedRowSeqs(MaxFeeds) :
           /\ Len(cats) + Len(frows) <= MaxLoadRows
           /\ LoadState(cats, frows)
    /\ NoAutoUpdate

NextLoad ==
    \/ AssembleCategoriesAttach
    \/ AssembleCategoriesSkip
    \/ AssembleCategoriesRescan
    \/ AssembleCategoriesDone
    \/ assembleFeeds
    \/ AppendRecycleBin

SpecLoad == InitLoad /\ [][NextLoad]_vars

\* The scan of assembleCategories runs on as long as it has a next step.
FairSpecLoad == SpecLoad /\ WF_vars(NextLoad)

\* ------------------------------------------------- structural mutations
\* The address a newly allocated item object gets.
NewNode == CHOOSE n \in Nodes \ heap : \A m \in Nodes \ heap : n <= m

\* The items a dialog offers as the parent of an item: the root item and the
\* categories of the tree.
ParentChoices == {n \in Reachable : kind[n] \in {"Root", "Category"}}

\* The items of the tree an index can refer to and a user can select.
Selectable == Reachable \ {m_rootItem}

\* RootItem::removeItself, by the kind of the item: a category or a feed is
\* deleted from the database, which succeeds or fails; the recycle bin has no
\* row that could be deleted.
removeItself(n, stored) == kind[n] \in {"Category", "Feed"} /\ stored

Call(name, node, target, stored, result, events, freed) ==
    [name |-> name, node |-> node, target |-> target, stored |-> stored,
     result |-> result, events |-> events, freed |-> freed]

\* delete item: the destructor deletes the whole subtree.
HeapAfterDelete(n) == heap \ Subtree(childItems, n)
KindAfterDelete(n) == [m \in Nodes |-> IF m \in Subtree(childItems, n) THEN "Free" ELSE kind[m]]

\* As removeItem, but the item is taken out of the model whatever the outcome
\* of the deletion in the database was.
removeItem_IgnoresFailure(n, stored) ==
    /\ pc = "idle"
    /\ IF n /= NoNode
       THEN LET gone == Subtree(childItems, n)
                detached == ChildrenAfterRemove(childItems, parent[n], n)
            IN /\ heap' = HeapAfterDelete(n)
               /\ kind' = KindAfterDelete(n)
               /\ childItems' = [m \in Nodes |-> IF m \in gone THEN <<>> ELSE detached[m]]
               /\ parent' = [m \in Nodes |-> IF m \in gone THEN NoNode ELSE parent[m]]
               /\ op' = Call("removeItem", n, NoNode, removeItself(n, stored),
                             removeItself(n, stored),
                             <<"beginRemoveRows", "endRemoveRows">>, gone)
       ELSE /\ op' = Call("removeItem", n, NoNode, FALSE, FALSE, <<>>, {})
            /\ UNCHANGED treeVars
    /\ UNCHANGED <<loadVars, feedVars, passVars>>

\* FeedsModel::removeItem with an index of the item n, or with an invalid
\* index (n = NoNode); stored is the outcome of the deletion in the database.
removeItem(n, stored) ==
    /\ pc = "idle"
    /\ IF n /= NoNode /\ removeItself(n, stored)
       THEN LET gone == Subtree(childItems, n)
                detached == ChildrenAfterRemove(childItems, parent[n], n)
            IN /\ heap' = HeapAfterDelete(n)
               /\ kind' = KindAfterDelete(n)
               /\ childItems' = [m \in Nodes |-> IF m \in gone THEN <<>> ELSE detached[m]]
               /\ parent' = [m \in Nodes |-> IF m \in gone THEN NoNode ELSE parent[m]]
               /\ op' = Call("removeItem", n, NoNode, TRUE, TRUE,
                              <<"beginRemoveRows", "endRemoveRows">>, gone)
       ELSE /\ op' = Call("removeItem", n, NoNode, FALSE, FALSE, <<>>, {})
            /\ UNCHANGED treeVars
    /\ UNCHANGED <<loadVars, feedVars, passVars>>

\* The common body of addCategory and addFeed: c is the new object the caller
\* made, p the parent, stored the outcome of addItself.
AddItem(name, itemKind, c, p, stored) ==
    /\ pc = "idle"
    /\ IF stored
       THEN /\ heap' = heap \cup {c}
            /\ kind' = [kind EXCEPT ![c] = itemKind]
            /\ childItems' = ChildrenAfterAppend(childItems, p, c)
            /\ parent' = ParentAfterAppend(parent, p, c)
            /\ op' = Call(name, c, p, TRUE, TRUE, <<"beginInsertRows", "endInsertRows">>, {})
       ELSE \* delete category / delete feed
            /\ op' = Call(name, c, p, FALSE, FALSE, <<>>, {c})
            /\ UNCHANGED treeVars
    /\ UNCHANGED <<loadVars, feedVars, passVars>>

\* As addCategory, without the delete of the category that was not stored.
addCategory_KeepsCandidate(c, p, stored) ==
    /\ pc = "idle"
    /\ IF stored
       THEN /\ heap' = heap \cup {c}
            /\ kind' = [kind EXCEPT ![c] = "Category"]
            /\ childItems' = ChildrenAfterAppend(childItems, p, c)
            /\ parent' = ParentAfterAppend(parent, p, c)
            /\ op' = Call("addCategory", c, p, TRUE, TRUE,
                          <<"beginInsertRows", "endInsertRows">>, {})
       ELSE /\ heap' = heap \cup {c}
            /\ kind' = [kind EXCEPT ![c] = "Category"]
            /\ op' = Call("addCategory", c, p, FALSE, FALSE, <<>>, {})
            /\ UNCHANGED <<childItems, parent>>
    /\ UNCHANGED <<loadVars, feedVars, passVars>>

\* FeedsModel::addCategory
addCategory(c, p, stored) == AddItem("addCategory", "Category", c, p, stored)

\* FeedsModel::addFeed
addFeed(c, p, stored) == AddItem("addFeed", "Feed", c, p, stored)

\* The notifications FeedsModel::reassignNodeToNewParent emits, in order, each
\* with the child lists an observer finds when it is notified.
reassignNotifications(original_node, new_parent) ==
    LET original_parent == parent[original_node]
        detached == ChildrenAfterRemove(childItems, original_parent, original_node)
        appended == ChildrenAfterAppend(detached, new_parent, original_node)
    IN IF original_parent /= new_parent
       THEN << [signal |-> "beginRemoveRows", childItems |-> childItems],
               [signal |-> "endRemoveRows", childItems |-> detached],
               [signal |-> "beginInsertRows", childItems |-> detached],
               [signal |-> "endInsertRows", childItems |-> appended] >>
       ELSE <<>>

\* As reassignNodeToNewParent, without the removal from the original parent.
reassignNodeToNewParent_KeepsOldLink(original_node, new_parent) ==
    /\ pc = "idle"
    /\ LET original_parent == parent[original_node]
       IN IF original_parent /= new_parent
          THEN /\ childItems' = ChildrenAfterAppend(childItems, new_parent, original_node)
               /\ parent' = ParentAfterAppend(parent, new_parent, original_node)
               /\ op' = Call("reassignNodeToNewParent", original_node, new_parent, TRUE, TRUE,
                             <<"beginInsertRows", "endInsertRows">>, {})
          ELSE /\ op' = Call("reassignNodeToNewParent", original_node, new_parent, TRUE, TRUE,
                             <<>>, {})
               /\ UNCHANGED <<childItems, parent>>
    /\ UNCHANGED <<heap, kind, loadVars, feedVars, passVars>>

\* FeedsModel::reassignNodeToNewParent
reassignNodeToNewParent(original_node, new_parent) ==
    /\ pc = "idle"
    /\ LET original_parent == parent[original_node]
       IN IF original_parent /= new_parent
          THEN LET detached == ChildrenAfterRemove(childItems, original_parent, original_node)
               IN /\ childItems' = ChildrenAfterAppend(detached, new_parent, original_node)
                  /\ parent' = ParentAfterAppend(parent, new_parent, original_node)
                  /\ op' = Call("reassignNodeToNewParent", original_node, new_parent, TRUE, TRUE,
                                <<"beginRemoveRows", "endRemoveRows",
                                  "beginInsertRows", "endInsertRows">>, {})
          ELSE /\ op' = Call("reassignNodeToNewParent", original_node, new_parent, TRUE, TRUE,
                            <<>>, {})
               /\ UNCHANGED <<childItems, parent>>
    /\ UNCHANGED <<heap, kind, loadVars, feedVars, passVars>>

RemoveItem ==
    /\ \E n \in Selectable \cup {NoNode}, stored \in BOOLEAN : removeItem(n, stored)
    /\ UNCHANGED extVars

AddCategory ==
    /\ Cardinality(heap) < MaxHeap
    /\ \E p \in ParentChoices, stored \in BOOLEAN : addCategory(NewNode, p, stored)
    /\ UNCHANGED extVars

AddFeed ==
    /\ Cardinality(heap) < MaxHeap
    /\ \E p \in ParentChoices, stored \in BOOLEAN : addFeed(NewNode, p, stored)
    /\ UNCHANGED extVars

ReassignNode ==
    /\ \E n \in {m \in Selectable : kind[m] \in {"Category", "Feed"}}, p \in ParentChoices :
           reassignNodeToNewParent(n, p)
    /\ UNCHANGED extVars

\* The tree the editing starts from is loaded from rows that form a valid
\* forest; every feed row names the top level or a category of the rows.
TreeRows ==
    {rows \in CategoryRowSeqs(MaxTreeRows) \X FeedRowSeqs(MaxFeeds) :
        /\ Len(rows[1]) + Len(rows[2]) <= MaxTreeRows
        /\ Len(rows[1]) + Len(rows[2]) + 2 <= MaxHeap
        /\ ValidForest(rows[1])
        /\ {ItemId(rows[1][k].second) : k \in 1..Len(rows[1])} = 1..Len(rows[1])
        /\ \A k \in 1..Len(rows[2]) :
               rows[2][k].first \in {NO_PARENT_CATEGORY} \cup (1..Len(rows[1]))}

Init ==
    /\ NoImportNoMessagesNoLock
    /\ \E rows \in TreeRows : LoadState(rows[1], rows[2])
    /\ NoAutoUpdate

Next ==
    \/ NextLoad
    \/ RemoveItem
    \/ AddCategory
    \/ AddFeed
    \/ ReassignNode

Spec == Init /\ [][Next]_vars

\* ------------------------------------------- loadFromDatabase, called again
\* loadFromDatabase called on the loaded model, up to the point where both
\* queries are read: qDeleteAll deletes every child of the root item, the
\* recycle bin among them, clearChildren empties the list, and the rows read
\* are made into new objects. m_recycleBin keeps the address of the deleted
\* object.
loadFromDatabaseAgain(cats, frows) ==
    /\ pc = "idle"
    /\ m_recycleBin \in heap
    /\ LET gone == UNION {Subtree(childItems, c) : c \in Range(childItems[m_rootItem])}
           catNodes == {cats[k].second : k \in 1..Len(cats)}
           feedNodes == {frows[k].second : k \in 1..Len(frows)}
       IN /\ heap' = (heap \ gone) \cup catNodes \cup feedNodes
          /\ kind' = [n \in Nodes |->
                        IF n \in catNodes THEN "Category"
                        ELSE IF n \in feedNodes THEN "Feed"
                        ELSE IF n \in gone THEN "Free"
                        ELSE kind[n]]
          /\ childItems' = [n \in Nodes |->
                              IF n \in gone \cup {m_rootItem} THEN <<>> ELSE childItems[n]]
          /\ parent' = [n \in Nodes |-> IF n \in gone THEN NoNode ELSE parent[n]]
          /\ declared' = [n \in catNodes \cup feedNodes |->
                            IF n \in catNodes
                            THEN cats[CHOOSE k \in 1..Len(cats) : cats[k].second = n].first
                            ELSE frows[CHOOSE k \in 1..Len(frows) : frows[k].second = n].first]
          /\ op' = Call("loadFromDatabase", NoNode, NoNode, FALSE, FALSE, <<>>, gone)
    /\ pc' = "assembleCategories"
    /\ categories' = cats
    /\ scan' = 0
    /\ assignments' = HashInsert(EmptyHash, NO_PARENT_CATEGORY, m_rootItem)
    /\ feeds' = frows
    /\ UNCHANGED <<feedVars, passVars, extVars>>

LoadAgain == \E rows \in TreeRows : loadFromDatabaseAgain(rows[1], rows[2])

\* The append of the recycle bin through the pointer to the deleted object
\* writes the parent into freed memory: the build may run on with the stale
\* address in the list of the root item (AppendRecycleBin) or stop here.
AppendRecycleBinFault ==
    /\ pc = "appendBin"
    /\ m_recycleBin \notin heap
    /\ pc' = "crashed"
    /\ UNCHANGED <<treeVars, categories, scan, assignments, feeds, declared, feedVars,
                   op, passVars, extVars>>

NextReload ==
    \/ NextLoad
    \/ LoadAgain
    \/ AppendRecycleBinFault

SpecReload == Init /\ [][NextReload]_vars

\* ------------------------------------------------------------- mergeModel
\* The import source: a FeedsImportExportModel with two top-level categories
\* that hold one feed each. Its items are named by strings.
SourceRoot == "source"
SourceItems == {"c1", "f2", "c3", "f4"}
SourceChildItems ==
    [s \in SourceItems \cup {SourceRoot} |->
        CASE s = SourceRoot -> <<"c1", "c3">>
          [] s = "c1" -> <<"f2">>
          [] s = "c3" -> <<"f4">>
          [] OTHER -> <<>>]
SourceKind == [s \in SourceItems |-> IF s \in {"c1", "c3"} THEN "Category" ELSE "Feed"]
SourceTitle == [s \in SourceItems |->
                   CASE s = "c1" -> "News" [] s = "c3" -> "Tech" [] OTHER -> s]
SourceParent(s) ==
    CHOOSE q \in SourceItems \cup {SourceRoot} : s \in Range(SourceChildItems[q])

ImportModels ==
    {[rootItem |-> SourceRoot, childItems |-> SourceChildItems, kind |-> SourceKind,
      title |-> SourceTitle, checked |-> c] : c \in [SourceItems -> BOOLEAN]}

\* RootItem::child(kind, title): the first child of that kind with that title,
\* or NULL.
ChildByTitle(p, k, t) ==
    LET hits == {i \in 1..Len(childItems[p]) :
                    kind[childItems[p][i]] = k /\ title[childItems[p][i]] = t}
    IN IF hits = {} THEN NoNode
       ELSE childItems[p][CHOOSE i \in hits : \A j \in hits : i <= j]

\* StandardCategory::addItself / StandardFeed::addItself: the insert into the
\* table. The insert of a category is refused when the parent has a category
\* of that title; any insert may fail in the database (stored = FALSE).
addItself(k, p, t, stored) ==
    stored /\ (k = "Category" => ChildByTitle(p, "Category", t) = NoNode)

\* QStack
Push(stack, x) == Append(stack, x)
Top(stack) == stack[Len(stack)]
Pop(stack) == SubSeq(stack, 1, Len(stack) - 1)

\* mergeModel called with no model or a model without root item.
MergeInvalidModel ==
    /\ pc = "idle"
    /\ merge.pc = "none"
    /\ model.rootItem = NoSourceItem
    /\ merge' = [merge EXCEPT !.pc = "done", !.output_message = "Invalid tree data.",
                              !.result = FALSE]
    /\ UNCHANGED <<treeVars, loadVars, feedVars, op, passVars, title, model,
                   storeVars, lockVars>>

\* mergeModel up to the while loop: both stacks hold their root item.
MergeStart ==
    /\ pc = "idle"
    /\ merge.pc = "none"
    /\ model.rootItem /= NoSourceItem
    /\ merge' = [merge EXCEPT !.pc = "while",
                              !.original_parents = <<m_rootItem>>,
                              !.new_parents = <<model.rootItem>>,
                              !.some_feed_category_error = FALSE]
    /\ UNCHANGED <<treeVars, loadVars, feedVars, op, passVars, title, model,
                   storeVars, lockVars>>

\* The test of the while loop with a pair of parents left: both are popped
\* and the foreach loop starts on the children of the source parent.
MergePopParents ==
    /\ merge.pc = "while"
    /\ merge.new_parents /= <<>>
    /\ merge' = [merge EXCEPT !.pc = "foreach",
                              !.target_parent = Top(merge.original_parents),
                              !.source_parent = Top(merge.new_parents),
                              !.original_parents = Pop(@),
                              !.new_parents = Pop(@),
                              !.todo = model.childItems[Top(merge.new_parents)]]
    /\ UNCHANGED <<treeVars, loadVars, feedVars, op, passVars, title, model,
                   storeVars, lockVars>>

\* As MergeFinish, with the import always reported as completely successful.
MergeFinish_AlwaysSuccess ==
    /\ merge.pc = "while"
    /\ merge.new_parents = <<>>
    /\ merge' = [merge EXCEPT !.pc = "done",
                              !.output_message = "Import was completely successfull.",
                              !.result = TRUE]
    /\ UNCHANGED <<treeVars, loadVars, feedVars, op, passVars, title, model,
                   storeVars, lockVars>>

\* The while loop ends: the message is set and mergeModel returns.
MergeFinish ==
    /\ merge.pc = "while"
    /\ merge.new_parents = <<>>
    /\ merge' = [merge EXCEPT
           !.pc = "done",
           !.output_message =
               IF merge.some_feed_category_error
               THEN "Import successfull, but some feeds/categories were not imported due to error."
               ELSE "Import was completely successfull.",
           !.result = ~merge.some_feed_category_error]
    /\ UNCHANGED <<treeVars, loadVars, feedVars, op, passVars, title, model,
                   storeVars, lockVars>>

\* The foreach loop is over.
MergeForeachDone ==
    /\ merge.pc = "foreach"
    /\ merge.todo = <<>>
    /\ merge' = [merge EXCEPT !.pc = "while"]
    /\ UNCHANGED <<treeVars, loadVars, feedVars, op, passVars, title, model,
                   storeVars, lockVars>>

\* An item that is not checked is skipped by the foreach loop.
MergeSkipUnchecked ==
    /\ merge.pc = "foreach"
    /\ merge.todo /= <<>>
    /\ ~model.checked[Head(merge.todo)]
    /\ merge' = [merge EXCEPT !.todo = Tail(@),
                              !.visited = HashInsert(@, Head(merge.todo), merge.target_parent)]
    /\ UNCHANGED <<treeVars, loadVars, feedVars, op, passVars, title, model,
                   storeVars, lockVars>>

\* What new_category->title() gives after addCategory has deleted the
\* category: the title that was there, something that is no title of the
\* tree, or no value at all because the read faults.
TitleReads == {"stale", "unreadable", "fault"}
TitleRead(source_item, read) ==
    IF read = "stale" THEN model.title[source_item] ELSE "(freed)"

\* The foreach body for a checked category: it is cloned without children and
\* added; when the add fails, a category of the same title is looked up in the
\* target parent.
MergeCategory ==
    /\ merge.pc = "foreach"
    /\ merge.todo /= <<>>
    /\ model.checked[Head(merge.todo)]
    /\ model.kind[Head(merge.todo)] = "Category"
    /\ \E stored \in BOOLEAN, read \in TitleReads :
           LET source_item == Head(merge.todo)
               target_parent == merge.target_parent
               new_category == NewNode
               added == addItself("Category", target_parent, model.title[source_item], stored)
               existing_category ==
                   ChildByTitle(target_parent, "Category", TitleRead(source_item, read))
               seen == [merge EXCEPT !.todo = Tail(@),
                                     !.visited = HashInsert(@, source_item, target_parent)]
           IN /\ addCategory(new_category, target_parent, added)
              /\ IF added
                 THEN /\ read = "stale"
                      /\ title' = [title EXCEPT ![new_category] = model.title[source_item]]
                      /\ merge' = [seen EXCEPT
                             !.original_parents = Push(@, new_category),
                             !.new_parents = Push(@, source_item),
                             !.cloneOf = HashInsert(@, new_category, source_item),
                             !.descended = HashInsert(@, source_item, new_category)]
                 ELSE /\ title' = title
                      /\ IF read = "fault"
                         THEN merge' = [merge EXCEPT !.pc = "crashed"]
                         ELSE IF existing_category /= NoNode
                         THEN merge' = [seen EXCEPT
                                  !.original_parents = Push(@, existing_category),
                                  !.new_parents = Push(@, source_item),
                                  !.descended = HashInsert(@, source_item, existing_category)]
                         ELSE merge' = [seen EXCEPT
                                  !.some_feed_category_error = TRUE,
                                  !.failed = @ \cup {source_item}]
    /\ UNCHANGED <<model, storeVars, lockVars>>

\* As MergeFeed, for a feed that is not checked as well.
MergeFeed_Unchecked ==
    /\ merge.pc = "foreach"
    /\ merge.todo /= <<>>
    /\ model.kind[Head(merge.todo)] = "Feed"
    /\ \E stored \in BOOLEAN :
           LET source_item == Head(merge.todo)
               new_feed == NewNode
               added == addItself("Feed", merge.target_parent, model.title[source_item], stored)
           IN /\ addFeed(new_feed, merge.target_parent, added)
              /\ title' = IF added THEN [title EXCEPT ![new_feed] = model.title[source_item]]
                          ELSE title
              /\ merge' = [merge EXCEPT
                     !.todo = Tail(@),
                     !.visited = HashInsert(@, source_item, merge.target_parent),
                     !.cloneOf = IF added THEN HashInsert(@, new_feed, source_item) ELSE @,
                     !.some_feed_category_error = @ \/ ~added,
                     !.failed = IF added THEN @ ELSE @ \cup {source_item}]
    /\ UNCHANGED <<model, storeVars, lockVars>>

\* The foreach body for a checked feed: it is cloned and added.
MergeFeed ==
    /\ merge.pc = "foreach"
    /\ merge.todo /= <<>>
    /\ model.checked[Head(merge.todo)]
    /\ model.kind[Head(merge.todo)] = "Feed"
    /\ \E stored \in BOOLEAN :
           LET source_item == Head(merge.todo)
               new_feed == NewNode
               added == addItself("Feed", merge.target_parent, model.title[source_item], stored)
           IN /\ addFeed(new_feed, merge.target_parent, added)
              /\ title' = IF added THEN [title EXCEPT ![new_feed] = model.title[source_item]]
                          ELSE title
              /\ merge' = [merge EXCEPT
                     !.todo = Tail(@),
                     !.visited = HashInsert(@, source_item, merge.target_parent),
                     !.cloneOf = IF added THEN HashInsert(@, new_feed, source_item) ELSE @,
                     !.some_feed_category_error = @ \/ ~added,
                     !.failed = IF added THEN @ ELSE @ \cup {source_item}]
    /\ UNCHANGED <<model, storeVars, lockVars>>

\* The trees an import goes into: the loaded tree is empty, or holds one
\* category, titled as one of the categories of the source.
MergeTargetTitles == {"News", "Tech"}

InitMerge ==
    /\ \E withCategory \in BOOLEAN, t \in MergeTargetTitles :
           LET A == CategoryNode(1)
           IN /\ heap = {m_rootItem, m_recycleBin} \cup (IF withCategory THEN {A} ELSE {})
              /\ kind = [n \in Nodes |->
                           IF n = m_rootItem THEN "Root"
                           ELSE IF n = m_recycleBin THEN "Bin"
                           ELSE IF withCategory /\ n = A THEN "Category"
                           ELSE "Free"]
              /\ childItems = [n \in Nodes |->
                                 IF n = m_rootItem
                                 THEN (IF withCategory THEN <<A>> ELSE <<>>) \o <<m_recycleBin>>
                                 ELSE <<>>]
              /\ parent = [n \in Nodes |->
                             IF n = m_recycleBin \/ (withCategory /\ n = A)
                             THEN m_rootItem ELSE NoNode]
              /\ title = [n \in Nodes |-> IF withCategory /\ n = A THEN t ELSE ""]
    /\ pc = "idle"
    /\ categories = <<>>
    /\ scan = 0
    /\ assignments = EmptyHash
    /\ feeds = <<>>
    /\ declared = EmptyHash
    /\ op = [NoCall EXCEPT !.name = "loadFromDatabase", !.result = TRUE]
    /\ NoAutoUpdate
    /\ model \in ImportModels \cup {NoModel}
    /\ merge = NoMerge
    /\ messages = <<>>
    /\ tx = NoTransaction
    /\ NoMessagesModel
    /\ lock = "free"
    /\ globalAutoUpdate = [enabled |-> FALSE, initial |-> 0, remaining |-> 0]
    /\ entry = NoEntry
    /\ running = NoRunning

NextMerge ==
    \/ MergeInvalidModel
    \/ MergeStart
    \/ MergePopParents
    \/ MergeSkipUnchecked
    \/ MergeCategory
    \/ MergeFeed
    \/ MergeForeachDone
    \/ MergeFinish

SpecMerge == InitMerge /\ [][NextMerge]_vars

\* mergeModel runs on as long as it has a next step.
FairSpecMerge == SpecMerge /\ WF_vars(NextMerge)

\* ------------------------------------- markFeedsRead / markFeedsDeleted
\* The feeds whose messages the table holds, by id, and the rows of the
\* table: the owning feed and the columns is_read and is_deleted.
StoreFeeds == {"Blog", "Other"}
MessageRows == [feed : StoreFeeds, is_read : {0, 1}, is_deleted : {0, 1}]

\* UPDATE Messages SET is_read = :read WHERE feed IN (...) AND is_deleted = 0
\* without the test of is_deleted.
UpdateIsRead_DeletedToo(table, ids, read) ==
    [i \in DOMAIN table |->
        IF table[i].feed \in ids THEN [table[i] EXCEPT !.is_read = read] ELSE table[i]]

\* UPDATE Messages SET is_read = :read WHERE feed IN (...) AND is_deleted = 0
UpdateIsRead(table, ids, read) ==
    [i \in DOMAIN table |->
        IF table[i].feed \in ids /\ table[i].is_deleted = 0
        THEN [table[i] EXCEPT !.is_read = read]
        ELSE table[i]]

\* As UpdateIsDeleted, with the unread messages updated for read_only too.
UpdateIsDeleted_UnreadToo(table, ids, deleted, read_only) ==
    [i \in DOMAIN table |->
        IF table[i].feed \in ids /\ table[i].is_deleted = 0
        THEN [table[i] EXCEPT !.is_deleted = deleted]
        ELSE table[i]]

\* UPDATE Messages SET is_deleted = :deleted WHERE feed IN (...) AND
\* is_deleted = 0 [AND is_read = 1]
UpdateIsDeleted(table, ids, deleted, read_only) ==
    [i \in DOMAIN table |->
        IF /\ table[i].feed \in ids
           /\ table[i].is_deleted = 0
           /\ read_only => table[i].is_read = 1
        THEN [table[i] EXCEPT !.is_deleted = deleted]
        ELSE table[i]]

\* What the calls to the database report: transaction(), prepare(), exec(),
\* the rollback() after a failed prepare or exec, commit() and the rollback()
\* after a failed commit. A call that is not reached reports nothing (FALSE).
DatabaseOutcomes ==
    {o \in [transaction : BOOLEAN, prepare : BOOLEAN, exec : BOOLEAN,
            rollback : BOOLEAN, commit : BOOLEAN, commit_rollback : BOOLEAN] :
        /\ ~o.transaction => ~o.prepare /\ ~o.rollback
        /\ ~o.prepare => ~o.exec /\ ~o.commit
        /\ o.prepare /\ o.exec => ~o.rollback
        /\ ~o.prepare \/ o.commit => ~o.commit_rollback}

\* The body shared by markFeedsRead and markFeedsDeleted around the statement:
\* updated is the table the statement gives when it is executed.
MarkFeeds(name, ids, value, read_only, updated, o) ==
    /\ pc = "idle"
    /\ messages' = IF o.transaction /\ o.prepare /\ o.exec /\ o.commit
                   THEN updated ELSE messages
    /\ tx' = [name |-> name, feeds |-> ids, value |-> value, read_only |-> read_only,
              outcome |-> o, before |-> messages,
              \* rollback() was called and reported success
              rolled_back |-> o.rollback \/ o.commit_rollback,
              result |-> IF ~o.transaction \/ ~o.prepare THEN FALSE
                         ELSE IF o.commit THEN TRUE
                         ELSE o.commit_rollback]
    /\ UNCHANGED <<treeVars, loadVars, feedVars, op, passVars, mergeVars, lockVars, viewVars>>

\* FeedsModel::markFeedsRead
markFeedsRead(ids, read, o) ==
    MarkFeeds("markFeedsRead", ids, read, FALSE, UpdateIsRead(messages, ids, read), o)

\* FeedsModel::markFeedsDeleted
markFeedsDeleted(ids, deleted, read_only, o) ==
    MarkFeeds("markFeedsDeleted", ids, deleted, read_only,
              UpdateIsDeleted(messages, ids, deleted, read_only), o)

\* A call on the table as it was read; every table is one a call can find
\* (InitStore), so the calls are followed one deep.
MarkFeedsRead ==
    /\ tx = NoTransaction
    /\ NoMessagesModel
    /\ \E ids \in SUBSET StoreFeeds, read \in {0, 1}, o \in DatabaseOutcomes :
           markFeedsRead(ids, read, o)

MarkFeedsDeleted ==
    /\ tx = NoTransaction
    /\ NoMessagesModel
    /\ \E ids \in SUBSET StoreFeeds, deleted \in {0, 1}, read_only \in BOOLEAN,
          o \in DatabaseOutcomes :
           markFeedsDeleted(ids, deleted, read_only, o)

\* The loaded model of a database without categories and feeds.
EmptyTree ==
    /\ heap = {m_rootItem, m_recycleBin}
    /\ kind = [n \in Nodes |->
                 IF n = m_rootItem THEN "Root" ELSE IF n = m_recycleBin THEN "Bin" ELSE "Free"]
    /\ childItems = [n \in Nodes |-> IF n = m_rootItem THEN <<m_recycleBin>> ELSE <<>>]
    /\ parent = [n \in Nodes |-> IF n = m_recycleBin THEN m_rootItem ELSE NoNode]
    /\ pc = "idle"
    /\ categories = <<>>
    /\ scan = 0
    /\ assignments = EmptyHash
    /\ feeds = <<>>
    /\ declared = EmptyHash
    /\ op = [NoCall EXCEPT !.name = "loadFromDatabase", !.result = TRUE]
    /\ NoAutoUpdate

InitStore ==
    /\ EmptyTree
    /\ title = [n \in Nodes |-> ""]
    /\ model = NoModel
    /\ merge = NoMerge
    /\ messages \in [1..MaxMessages -> MessageRows]
    /\ tx = NoTransaction
    /\ NoMessagesModel
    /\ lock = "free"
    /\ globalAutoUpdate = [enabled |-> FALSE, initial |-> 0, remaining |-> 0]
    /\ entry = NoEntry
    /\ running = NoRunning

NextStore ==
    \/ MarkFeedsRead
    \/ MarkFeedsDeleted

SpecStore == InitStore /\ [][NextStore]_vars

\* ------------------------------------------------ scheduled auto-update
\* FeedsModel::feedsForItem: the feeds among the descendants of an item.
feedsForItem(root) == SelectSeq(getRecursiveChildren(root), LAMBDA n : kind[n] = "Feed")

allFeeds == feedsForItem(m_rootItem)

\* As IntervalPassed, with the test one pass late.
IntervalPassed_Late(remaining_interval) == remaining_interval < 0

\* The test of the decremented interval: the interval of the feed has passed.
IntervalPassed(remaining_interval) == remaining_interval <= 0

\* As ScheduledUpdate, with the feeds of the global interval always included.
RECURSIVE ScheduledUpdate_IgnoresNow(_, _, _, _)
ScheduledUpdate_IgnoresNow(list, now, out, rem) ==
    IF list = <<>> THEN [out |-> out, rem |-> rem]
    ELSE LET feed == Head(list)
             remaining_interval == rem[feed] - 1
         IN CASE autoUpdateType[feed] = "DontAutoUpdate" ->
                     ScheduledUpdate_IgnoresNow(Tail(list), now, out, rem)
              [] autoUpdateType[feed] = "DefaultAutoUpdate" ->
                     ScheduledUpdate_IgnoresNow(Tail(list), now, Append(out, feed), rem)
              [] OTHER ->
                     IF IntervalPassed(remaining_interval)
                     THEN ScheduledUpdate_IgnoresNow(Tail(list), now, Append(out, feed),
                              [rem EXCEPT ![feed] = autoUpdateInitialInterval[feed]])
                     ELSE ScheduledUpdate_IgnoresNow(Tail(list), now, out,
                              [rem EXCEPT ![feed] = remaining_interval])

\* As ScheduledUpdate, without the reset of the interval that has passed.
RECURSIVE ScheduledUpdate_NoReset(_, _, _, _)
ScheduledUpdate_NoReset(list, now, out, rem) ==
    IF list = <<>> THEN [out |-> out, rem |-> rem]
    ELSE LET feed == Head(list)
             remaining_interval == rem[feed] - 1
         IN CASE autoUpdateType[feed] = "DontAutoUpdate" ->
                     ScheduledUpdate_NoReset(Tail(list), now, out, rem)
              [] autoUpdateType[feed] = "DefaultAutoUpdate" ->
                     ScheduledUpdate_NoReset(Tail(list), now,
                                             IF now THEN Append(out, feed) ELSE out, rem)
              [] OTHER ->
                     IF IntervalPassed(remaining_interval)
                     THEN ScheduledUpdate_NoReset(Tail(list), now, Append(out, feed),
                              [rem EXCEPT ![feed] = remaining_interval])
                     ELSE ScheduledUpdate_NoReset(Tail(list), now, out,
                              [rem EXCEPT ![feed] = remaining_interval])

\* The foreach loop of feedsForScheduledUpdate over the feeds left; out is the
\* list built so far and rem the remaining intervals set so far.
RECURSIVE ScheduledUpdate(_, _, _, _)
ScheduledUpdate(list, now, out, rem) ==
    IF list = <<>> THEN [out |-> out, rem |-> rem]
    ELSE LET feed == Head(list)
             remaining_interval == rem[feed] - 1
         IN CASE autoUpdateType[feed] = "DontAutoUpdate" ->
                     ScheduledUpdate(Tail(list), now, out, rem)
              [] autoUpdateType[feed] = "DefaultAutoUpdate" ->
                     ScheduledUpdate(Tail(list), now,
                                     IF now THEN Append(out, feed) ELSE out, rem)
              [] OTHER ->
                     IF IntervalPassed(remaining_interval)
                     THEN ScheduledUpdate(Tail(list), now, Append(out, feed),
                              [rem EXCEPT ![feed] = autoUpdateInitialInterval[feed]])
                     ELSE ScheduledUpdate(Tail(list), now, out,
                              [rem EXCEPT ![feed] = remaining_interval])

\* FeedsModel::feedsForScheduledUpdate
feedsForScheduledUpdate(now) ==
    /\ pc = "idle"
    /\ LET pass == ScheduledUpdate(allFeeds, now, <<>>, autoUpdateRemainingInterval)
       IN /\ feeds_for_update' = pass.out
          /\ autoUpdateRemainingInterval' = pass.rem
    /\ auto_update_now' = now
    /\ UNCHANGED <<treeVars, loadVars, autoUpdateType, autoUpdateInitialInterval,
                   op, startRemaining>>

\* A decision pass, with the passes counted.
DecisionPass ==
    /\ passNo < MaxPasses
    /\ \E now \in BOOLEAN : feedsForScheduledUpdate(now)
    /\ passNo' = passNo + 1
    /\ UNCHANGED extVars

\* The auto-update attributes of a feed: a feed with an interval of its own
\* counts 1 <= remaining <= initial.
FeedAttributes ==
    {a \in [type : AutoUpdateTypes, initial : 1..MaxInterval, remaining : 1..MaxInterval] :
        /\ a.remaining <= a.initial
        /\ a.type /= "SpecificAutoUpdate" => a.initial = 1}

\* The trees the passes run on: a top-level category with a category in it
\* (whose row comes first), and feeds at the top level and in the top-level
\* category.
SchedCategoryRows ==
    {<<[first |-> 1, second |-> CategoryNode(2)],
       [first |-> NO_PARENT_CATEGORY, second |-> CategoryNode(1)]>>}

SchedRows ==
    {frows \in FeedRowSeqs(MaxFeeds) :
        \A k \in 1..Len(frows) : frows[k].first \in {NO_PARENT_CATEGORY, 1}}

InitSched ==
    /\ NoImportNoMessagesNoLock
    /\ \E cats \in SchedCategoryRows, frows \in SchedRows :
           /\ LoadState(cats, frows)
           /\ \E attrs \in [{frows[k].second : k \in 1..Len(frows)} -> FeedAttributes] :
                  /\ autoUpdateType = [n \in Nodes |->
                         IF n \in DOMAIN attrs THEN attrs[n].type ELSE "DontAutoUpdate"]
                  /\ autoUpdateInitialInterval = [n \in Nodes |->
                         IF n \in DOMAIN attrs THEN attrs[n].initial ELSE 0]
                  /\ autoUpdateRemainingInterval = [n \in Nodes |->
                         IF n \in DOMAIN attrs THEN attrs[n].remaining ELSE 0]
                  /\ startRemaining = [n \in Nodes |->
                         IF n \in DOMAIN attrs THEN attrs[n].remaining ELSE 0]
    /\ passNo = 0
    /\ auto_update_now = FALSE
    /\ feeds_for_update = <<>>

NextSched ==
    \/ NextLoad
    \/ DecisionPass

SpecSched == InitSched /\ [][NextSched]_vars

\* --------------------------------------------------- the feed-update lock
\* The lock is free or held: by one of the functions of the feed view that
\* take it, or by somebody else (the feed updater, the application quitting).
UserEntries == {"addNewCategory", "addNewFeed", "editSelectedItem", "deleteSelectedItem"}

\* The record of an entry into a function that takes the lock: whether it was
\* turned away, who held the lock while it ran, and the feeds it requested
\* an update for.
Entry(name, refused, held, emitted) ==
    [name |-> name, refused |-> refused, held |-> held, emitted |-> emitted]

\* The function that took the lock, whether it is still running, and its calls
\* on the lock and the request it emitted, in order.
Running(name, active, steps) == [name |-> name, active |-> active, steps |-> steps]

\* The process runs and the main thread is not inside mergeModel; the one
\* import that is followed is the last thing the main thread does.
MainThreadFree == pc = "idle" /\ merge.pc = "none"

\* No modal dialog of the feed view is open.
NoDialog == lock \in {"free", "other"}

\* As TryEnter, with the function going on without the lock when it is held.
TryEnter_IgnoresLock(name) ==
    /\ MainThreadFree
    /\ NoDialog
    /\ lock' = name
    /\ entry' = Entry(name, FALSE, name, <<>>)
    /\ running' = Running(name, TRUE, <<"tryLock">>)
    /\ UNCHANGED <<treeVars, loadVars, feedVars, op, passVars, mergeVars, storeVars,
                   globalAutoUpdate>>

\* The head of addNewCategory, addNewFeed, editSelectedItem and
\* deleteSelectedItem: tryLock, and a return at once when the lock is held.
TryEnter(name) ==
    /\ MainThreadFree
    /\ NoDialog
    /\ IF lock = "free"
       THEN /\ lock' = name
            /\ entry' = Entry(name, FALSE, name, <<>>)
            /\ running' = Running(name, TRUE, <<"tryLock">>)
       ELSE /\ lock' = lock
            /\ entry' = Entry(name, TRUE, lock, <<>>)
            /\ running' = running
    /\ UNCHANGED <<treeVars, loadVars, feedVars, op, passVars, mergeVars, storeVars,
                   globalAutoUpdate>>

\* The end of the four functions: unlock.
Leave(name) ==
    /\ pc = "idle"
    /\ lock = name
    /\ lock' = "free"
    /\ running' = Running(name, FALSE, Append(running.steps, "unlock"))

\* The feed view has added no item that is still there: one item added
\* through the dialogs is followed at a time.
NothingAdded == heap \subseteq {m_rootItem, m_recycleBin, FeedNode(1)}

\* FeedsView::addNewCategory: the dialog is opened with the lock held; it is
\* accepted, which adds the category, or closed.
addNewCategory_Enter == TryEnter("addNewCategory")

addNewCategory_Accept ==
    /\ Leave("addNewCategory")
    /\ NothingAdded
    /\ \E p \in ParentChoices, stored \in BOOLEAN : addCategory(NewNode, p, stored)
    /\ UNCHANGED <<mergeVars, storeVars, globalAutoUpdate, entry>>

\* FeedsView::addNewFeed
addNewFeed_Enter == TryEnter("addNewFeed")

addNewFeed_Accept ==
    /\ Leave("addNewFeed")
    /\ NothingAdded
    /\ \E p \in ParentChoices, stored \in BOOLEAN : addFeed(NewNode, p, stored)
    /\ UNCHANGED <<mergeVars, storeVars, globalAutoUpdate, entry>>

\* FeedsView::editSelectedItem with an item selected: the dialog of a
\* category or feed, when accepted, moves the item to the parent chosen.
editSelectedItem_Enter ==
    /\ Selectable /= {}
    /\ TryEnter("editSelectedItem")

editSelectedItem_Accept ==
    /\ Leave("editSelectedItem")
    /\ \E n \in {m \in Selectable : kind[m] \in {"Category", "Feed"}}, p \in ParentChoices :
           reassignNodeToNewParent(n, p)
    /\ UNCHANGED <<mergeVars, storeVars, globalAutoUpdate, entry>>

\* FeedsView::deleteSelectedItem: with the current index valid the question is
\* asked with the lock held; on Yes the item is removed.
deleteSelectedItem_Enter == TryEnter("deleteSelectedItem")

deleteSelectedItem_Yes ==
    /\ Leave("deleteSelectedItem")
    /\ \E n \in Selectable, stored \in BOOLEAN : removeItem(n, stored)
    /\ UNCHANGED <<mergeVars, storeVars, globalAutoUpdate, entry>>

\* As deleteSelectedItem_No, with the return made without the unlock.
deleteSelectedItem_No_KeepsLock ==
    /\ pc = "idle"
    /\ lock = "deleteSelectedItem"
    /\ running' = Running("deleteSelectedItem", FALSE, running.steps)
    /\ UNCHANGED <<treeVars, loadVars, feedVars, op, passVars, mergeVars, storeVars,
                   lock, globalAutoUpdate, entry>>

\* FeedsView::deleteSelectedItem, the user answers No: unlock and return.
deleteSelectedItem_No ==
    /\ Leave("deleteSelectedItem")
    /\ UNCHANGED <<treeVars, loadVars, feedVars, op, passVars, mergeVars, storeVars,
                   globalAutoUpdate, entry>>

\* FeedsView::deleteSelectedItem, the current index is not valid: unlock and
\* return, no question is asked.
deleteSelectedItem_InvalidIndex ==
    /\ Leave("deleteSelectedItem")
    /\ UNCHANGED <<treeVars, loadVars, feedVars, op, passVars, mergeVars, storeVars,
                   globalAutoUpdate, entry>>

\* The dialog of addNewCategory, addNewFeed or editSelectedItem is closed
\* without a change (or the item cannot be edited): unlock.
CloseDialog ==
    /\ \E name \in UserEntries \ {"deleteSelectedItem"} : Leave(name)
    /\ UNCHANGED <<treeVars, loadVars, feedVars, op, passVars, mergeVars, storeVars,
                   globalAutoUpdate, entry>>

\* Somebody else takes the lock and gives it back.
OtherLocks ==
    /\ pc = "idle"
    /\ merge.pc /= "crashed"
    /\ lock = "free"
    /\ lock' = "other"
    /\ UNCHANGED <<treeVars, loadVars, feedVars, op, passVars, mergeVars, storeVars,
                   globalAutoUpdate, entry, running>>

OtherUnlocks ==
    /\ pc = "idle"
    /\ merge.pc /= "crashed"
    /\ lock = "other"
    /\ lock' = "free"
    /\ UNCHANGED <<treeVars, loadVars, feedVars, op, passVars, mergeVars, storeVars,
                   globalAutoUpdate, entry, running>>

\* The global counter after "m_globalAutoUpdateEnabled &&
\* --m_globalAutoUpdateRemainingInterval < 0" and the reset that follows.
GlobalRemainingAfterTick ==
    IF ~globalAutoUpdate.enabled THEN globalAutoUpdate.remaining
    ELSE IF globalAutoUpdate.remaining - 1 < 0 THEN globalAutoUpdate.initial
    ELSE globalAutoUpdate.remaining - 1

\* The calls of a tick that got the lock: tryLock, the decision pass, unlock,
\* and then the request when the pass returned feeds.
TickSteps(feeds_due) ==
    <<"tryLock", "unlock">>
        \o (IF feeds_due /= <<>> THEN <<"feedsUpdateRequested">> ELSE <<>>)

\* As executeNextAutoUpdate, without the test of the lock.
executeNextAutoUpdate_NoLock ==
    /\ MainThreadFree
    /\ feedsForScheduledUpdate(globalAutoUpdate.enabled /\ GlobalRemainingAfterTick = 0)
    /\ globalAutoUpdate' = [globalAutoUpdate EXCEPT !.remaining = GlobalRemainingAfterTick]
    /\ entry' = Entry("executeNextAutoUpdate", FALSE, "executeNextAutoUpdate",
                      feeds_for_update')
    /\ running' = Running("executeNextAutoUpdate", FALSE, TickSteps(feeds_for_update'))
    /\ UNCHANGED <<passNo, lock, mergeVars, storeVars>>

\* FeedsModel::executeNextAutoUpdate after tryLock has succeeded: the global
\* counter, the decision pass, unlock and the request.
executeNextAutoUpdate_Locked ==
    /\ feedsForScheduledUpdate(globalAutoUpdate.enabled /\ GlobalRemainingAfterTick = 0)
    /\ globalAutoUpdate' = [globalAutoUpdate EXCEPT !.remaining = GlobalRemainingAfterTick]
    /\ entry' = Entry("executeNextAutoUpdate", FALSE, "executeNextAutoUpdate",
                      feeds_for_update')
    /\ running' = Running("executeNextAutoUpdate", FALSE, TickSteps(feeds_for_update'))

\* FeedsModel::executeNextAutoUpdate, the slot of the auto-update timer.
executeNextAutoUpdate ==
    /\ MainThreadFree
    /\ IF lock /= "free"
       THEN /\ entry' = Entry("executeNextAutoUpdate", TRUE, lock, <<>>)
            /\ UNCHANGED <<treeVars, loadVars, feedVars, op, passVars, globalAutoUpdate,
                           running>>
       ELSE /\ executeNextAutoUpdate_Locked
            /\ passNo' = passNo
    /\ UNCHANGED <<lock, mergeVars, storeVars>>

\* FormStandardImportExport::importFeeds: the import dialog calls mergeModel;
\* the lock is not asked for.
importFeeds ==
    /\ NoDialog
    /\ MergeStart

\* FeedsView::editSelectedItem with nothing selected: selectedItem() is NULL
\* and canBeEdited() is called through it, with the lock taken.
editSelectedItem_NothingSelected ==
    /\ MainThreadFree
    /\ lock = "free"
    /\ lock' = "editSelectedItem"
    /\ entry' = Entry("editSelectedItem", FALSE, "editSelectedItem", <<>>)
    /\ running' = Running("editSelectedItem", TRUE, <<"tryLock">>)
    /\ pc' = "crashed"
    /\ UNCHANGED <<treeVars, categories, scan, assignments, feeds, declared, feedVars, op,
                   passVars, mergeVars, storeVars, globalAutoUpdate>>

\* The model the timer and the feed view work on: one feed at the top level
\* that has an interval of its own, the global auto-update enabled with an
\* interval of one tick (updateAutoUpdateStatus), and an import model in which
\* one category and its feed are checked.
InitLock ==
    /\ \E attrs \in {a \in FeedAttributes : a.type = "SpecificAutoUpdate" /\ a.remaining = MaxInterval} :
           LET F == FeedNode(1)
           IN /\ heap = {m_rootItem, m_recycleBin, F}
              /\ kind = [n \in Nodes |->
                           IF n = m_rootItem THEN "Root"
                           ELSE IF n = m_recycleBin THEN "Bin"
                           ELSE IF n = F THEN "Feed"
                           ELSE "Free"]
              /\ childItems = [n \in Nodes |->
                                 IF n = m_rootItem THEN <<F, m_recycleBin>> ELSE <<>>]
              /\ parent = [n \in Nodes |->
                             IF n \in {F, m_recycleBin} THEN m_rootItem ELSE NoNode]
              /\ title = [n \in Nodes |-> IF n = F THEN "Blog" ELSE ""]
              /\ autoUpdateType = [n \in Nodes |->
                                     IF n = F THEN attrs.type ELSE "DontAutoUpdate"]
              /\ autoUpdateInitialInterval = [n \in Nodes |->
                                                IF n = F THEN attrs.initial ELSE 0]
              /\ autoUpdateRemainingInterval = [n \in Nodes |->
                                                  IF n = F THEN attrs.remaining ELSE 0]
              /\ startRemaining = [n \in Nodes |-> IF n = F THEN attrs.remaining ELSE 0]
    /\ pc = "idle"
    /\ categories = <<>>
    /\ scan = 0
    /\ assignments = EmptyHash
    /\ feeds = <<>>
    /\ declared = EmptyHash
    /\ op = [NoCall EXCEPT !.name = "loadFromDatabase", !.result = TRUE]
    /\ passNo = 0
    /\ auto_update_now = FALSE
    /\ feeds_for_update = <<>>
    /\ model \in {m \in ImportModels :
                     m.checked = [x \in SourceItems |-> x \in {"c1", "f2"}]}
    /\ merge = NoMerge
    /\ messages = <<>>
    /\ tx = NoTransaction
    /\ NoMessagesModel
    /\ lock = "free"
    /\ globalAutoUpdate = [enabled |-> TRUE, initial |-> 1, remaining |-> 1]
    /\ entry = NoEntry
    /\ running = NoRunning

NextLock ==
    \/ addNewCategory_Enter
    \/ addNewCategory_Accept
    \/ addNewFeed_Enter
    \/ addNewFeed_Accept
    \/ editSelectedItem_Enter
    \/ editSelectedItem_Accept
    \/ editSelectedItem_NothingSelected
    \/ deleteSelectedItem_Enter
    \/ deleteSelectedItem_Yes
    \/ deleteSelectedItem_No
    \/ deleteSelectedItem_InvalidIndex
    \/ CloseDialog
    \/ OtherLocks
    \/ OtherUnlocks
    \/ executeNextAutoUpdate
    \/ importFeeds
    \/ MergePopParents
    \/ MergeSkipUnchecked
    \/ MergeCategory
    \/ MergeFeed
    \/ MergeForeachDone
    \/ MergeFinish

SpecLock == InitLock /\ [][NextLock]_vars

\* ------------------------------------------------- the feeds of a selection
\* Largest number of indexes of a selection.
MaxSelection == 2

\* qSort with RootItem::lessThan, then std::unique with RootItem::isEqual: the
\* items of the list in the order of the items, each once.
SortedUnique(list) ==
    LET S == Range(list)
    IN [k \in 1..Cardinality(S) |->
           CHOOSE x \in S : Cardinality({y \in S : y < x}) = k - 1]

\* FeedsModel::feedsForIndex, the index given by its item.
feedsForIndex(index) == feedsForItem(index)

\* The foreach loop of feedsForIndexes: the feeds of each index, appended.
RECURSIVE FeedsAppended(_)
FeedsAppended(indexes) ==
    IF indexes = <<>> THEN <<>>
    ELSE feedsForIndex(Head(indexes)) \o FeedsAppended(Tail(indexes))

\* FeedsModel::feedsForIndexes: duplicates are removed when the number of
\* feeds differs from the number of indexes.
feedsForIndexes(indexes) ==
    LET collected == FeedsAppended(indexes)
    IN IF Len(indexes) /= Len(collected) THEN SortedUnique(collected) ELSE collected

\* A call of feedsForIndexes with the indexes of a selection of the view.
FeedsForIndexes ==
    /\ pc = "idle"
    /\ \E indexes \in InjectiveSeqs(Selectable, MaxSelection) :
           op' = [name |-> "feedsForIndexes", indexes |-> indexes,
                  feeds |-> feedsForIndexes(indexes)]
    /\ UNCHANGED <<treeVars, loadVars, feedVars, passVars, extVars>>

\* The trees the selections are made in: a top-level category with a category
\* in it (whose row comes first), and feeds at the top level and in either
\* category.
SelectRows ==
    {frows \in FeedRowSeqs(MaxFeeds) :
        \A k \in 1..Len(frows) : frows[k].first \in {NO_PARENT_CATEGORY, 1, 2}}

InitSelect ==
    /\ NoImportNoMessagesNoLock
    /\ \E cats \in SchedCategoryRows, frows \in SelectRows : LoadState(cats, frows)
    /\ NoAutoUpdate

NextSelect ==
    \/ NextLoad
    \/ FeedsForIndexes

SpecSelect == InitSelect /\ [][NextSelect]_vars

\* ------------------------------------------------------ the update timer
\* The settings updateAutoUpdateStatus reads: whether the global auto-update
\* is enabled, and its interval in ticks of the timer.
AutoUpdateSettings == [enabled : BOOLEAN, interval : 1..MaxInterval]

\* As updateAutoUpdateStatus, with the intervals of the feeds restarted too.
updateAutoUpdateStatus_RestartsFeeds(settings) ==
    /\ MainThreadFree
    /\ globalAutoUpdate' = [enabled |-> settings.enabled, initial |-> settings.interval,
                            remaining |-> settings.interval]
    /\ autoUpdateRemainingInterval' = autoUpdateInitialInterval
    /\ passNo' = 0
    /\ startRemaining' = autoUpdateRemainingInterval'
    /\ UNCHANGED <<treeVars, loadVars, autoUpdateType, autoUpdateInitialInterval, op,
                   auto_update_now, feeds_for_update, mergeVars, storeVars, lock, entry,
                   running>>

\* FeedsModel::updateAutoUpdateStatus: the global interval and counter are
\* set from the settings; the timer runs whether the global auto-update is
\* enabled or not. The ticks are counted from here on, and each feed from the
\* remaining interval it has now.
updateAutoUpdateStatus(settings) ==
    /\ MainThreadFree
    /\ globalAutoUpdate' = [enabled |-> settings.enabled, initial |-> settings.interval,
                            remaining |-> settings.interval]
    /\ passNo' = 0
    /\ startRemaining' = autoUpdateRemainingInterval
    /\ UNCHANGED <<treeVars, loadVars, feedVars, op, auto_update_now, feeds_for_update,
                   mergeVars, storeVars, lock, entry, running>>

UpdateAutoUpdateStatus ==
    \E settings \in AutoUpdateSettings : updateAutoUpdateStatus(settings)

\* A tick of the timer that gets the lock, with the ticks counted.
TimerTick ==
    /\ MainThreadFree
    /\ lock = "free"
    /\ passNo < MaxPasses
    /\ executeNextAutoUpdate_Locked
    /\ passNo' = passNo + 1
    /\ UNCHANGED <<lock, mergeVars, storeVars>>

\* The model after its construction, which ends with updateAutoUpdateStatus:
\* one feed at the top level with any auto-update attributes, and the timer
\* started.
InitTimer ==
    /\ \E attrs \in FeedAttributes, settings \in AutoUpdateSettings :
           LET F == FeedNode(1)
           IN /\ heap = {m_rootItem, m_recycleBin, F}
              /\ kind = [n \in Nodes |->
                           IF n = m_rootItem THEN "Root"
                           ELSE IF n = m_recycleBin THEN "Bin"
                           ELSE IF n = F THEN "Feed"
                           ELSE "Free"]
              /\ childItems = [n \in Nodes |->
                                 IF n = m_rootItem THEN <<F, m_recycleBin>> ELSE <<>>]
              /\ parent = [n \in Nodes |->
                             IF n \in {F, m_recycleBin} THEN m_rootItem ELSE NoNode]
              /\ autoUpdateType = [n \in Nodes |->
                                     IF n = F THEN attrs.type ELSE "DontAutoUpdate"]
              /\ autoUpdateInitialInterval = [n \in Nodes |->
                                                IF n = F THEN attrs.initial ELSE 0]
              /\ autoUpdateRemainingInterval = [n \in Nodes |->
                                                  IF n = F THEN attrs.remaining ELSE 0]
              /\ startRemaining = [n \in Nodes |-> IF n = F THEN attrs.remaining ELSE 0]
              /\ globalAutoUpdate = [enabled |-> settings.enabled,
                                     initial |-> settings.interval,
                                     remaining |-> settings.interval]
    /\ pc = "idle"
    /\ categories = <<>>
    /\ scan = 0
    /\ assignments = EmptyHash
    /\ feeds = <<>>
    /\ declared = EmptyHash
    /\ op = [NoCall EXCEPT !.name = "loadFromDatabase", !.result = TRUE]
    /\ passNo = 0
    /\ auto_update_now = FALSE
    /\ feeds_for_update = <<>>
    /\ title = [n \in Nodes |-> ""]
    /\ model = NoModel
    /\ merge = NoMerge
    /\ messages = <<>>
    /\ tx = NoTransaction
    /\ NoMessagesModel
    /\ lock = "free"
    /\ entry = NoEntry
    /\ running = NoRunning

NextTimer ==
    \/ UpdateAutoUpdateStatus
    \/ TimerTick

SpecTimer == InitTimer /\ [][NextTimer]_vars

\* ------------------------------------------------------------ MessagesModel
\* The columns of the select statement that the message operations read or
\* write, by the name of the column of the Messages table.
MSG_DB_ID_INDEX == "id"
MSG_DB_READ_INDEX == "is_read"
MSG_DB_DELETED_INDEX == "is_deleted"
MSG_DB_IMPORTANT_INDEX == "is_important"
MSG_DB_PDELETED_INDEX == "is_pdeleted"
Columns == {MSG_DB_ID_INDEX, MSG_DB_READ_INDEX, MSG_DB_DELETED_INDEX,
            MSG_DB_IMPORTANT_INDEX, MSG_DB_PDELETED_INDEX}
Roles == {"DisplayRole", "EditRole", "FontRole", "ForegroundRole", "DecorationRole",
          "ToolTipRole"}
MessageHighlighters == {"NoHighlighting", "HighlightUnread", "HighlightImportant"}

\* The rows of the Messages table with every flag of a message; the id of a
\* message is its position in the table.
MessageRecords ==
    [feed : StoreFeeds, is_read : {0, 1}, is_deleted : {0, 1}, is_pdeleted : {0, 1},
     is_important : {0, 1}]

\* The items loadMessages is given: a feed, the recycle bin, or nothing.
LoadableItems == {"Blog", "RecycleBin"}
\* qobject_cast<RecycleBin*>(item) != nullptr
IsRecycleBin(item) == item = "RecycleBin"
\* item->kind()
ItemKind(item) == IF item = "RecycleBin" THEN "Bin" ELSE "Feed"

\* The filters: the default one, the one that matches nothing, and the one
\* the service installs for an item.
DEFAULT_SQL_MESSAGES_FILTER == "default"
Matches(f, row) ==
    CASE f = DEFAULT_SQL_MESSAGES_FILTER -> row.is_deleted = 0
      [] f = "true != true" -> FALSE
      [] f = "RecycleBin" -> row.is_deleted = 1 /\ row.is_pdeleted = 0
      [] OTHER -> row.feed = f /\ row.is_deleted = 0 /\ row.is_pdeleted = 0

\* setQuery(selectStatement(), m_db) with every row fetched: the matching rows
\* of the table in the order of their ids.
selectStatement(table, f) ==
    LET S == {i \in DOMAIN table : Matches(f, table[i])}
    IN [k \in 1..Cardinality(S) |->
           LET i == CHOOSE i \in S : Cardinality({j \in S : j < i}) = k - 1
           IN [id |-> i, feed |-> table[i].feed, is_read |-> table[i].is_read,
               is_deleted |-> table[i].is_deleted, is_pdeleted |-> table[i].is_pdeleted,
               is_important |-> table[i].is_important]]

\* MessagesModelCache::containsData
containsData(c, row) == row \in DOMAIN c
\* MessagesModelCache::setData(index, value, record): the record of the row is
\* copied into the cache on its first edit, then the column is overwritten.
cache_setData(c, row, col, value, rec) ==
    LET base == IF containsData(c, row) THEN c[row] ELSE rec
    IN [r \in DOMAIN c \cup {row} |->
           IF r = row THEN [base EXCEPT ![col] = value] ELSE c[r]]

\* As setData, with the edit dropped.
setData_NotCached(q, c, row, col, value) == c

\* MessagesModel::setData
setData(q, c, row, col, value) == cache_setData(c, row, col, value, q[row])

\* setData(index(row, col), value[row]) for every row of rows in turn.
RECURSIVE setDataForEach(_, _, _, _, _)
setDataForEach(q, c, rows, col, value) ==
    IF rows = {} THEN c
    ELSE LET row == CHOOSE r \in rows : \A o \in rows : r <= o
         IN setDataForEach(q, setData(q, c, row, col, value[row]), rows \ {row}, col, value)

\* m_cache->containsData(row) ? m_cache->data(idx) : QSqlQueryModel::data(idx)
CachedOrQuery(q, c, row, col) == IF containsData(c, row) THEN c[row][col] ELSE q[row][col]

\* MessagesModel::data(idx, role) for the query rows q and the cache c
data(q, c, row, col, role) ==
    CASE role = "DisplayRole" ->
             IF col /= MSG_DB_IMPORTANT_INDEX /\ col /= MSG_DB_READ_INDEX
             THEN q[row][col]
             ELSE "QVariant()"
      [] role = "EditRole" -> CachedOrQuery(q, c, row, col)
      [] role = "FontRole" ->
             LET data_read == CachedOrQuery(q, c, row, MSG_DB_READ_INDEX)
                 is_bin == IsRecycleBin(m_selectedItem)
                 is_deleted == IF is_bin
                               THEN CachedOrQuery(q, c, row, MSG_DB_PDELETED_INDEX) /= 0
                               ELSE CachedOrQuery(q, c, row, MSG_DB_DELETED_INDEX) /= 0
             IN IF data_read /= 0
                THEN (IF is_deleted THEN "m_normalStrikedFont" ELSE "m_normalFont")
                ELSE (IF is_deleted THEN "m_boldStrikedFont" ELSE "m_boldFont")
      [] role = "ForegroundRole" ->
             CASE m_messageHighlighter = "HighlightImportant" ->
                      IF CachedOrQuery(q, c, row, MSG_DB_IMPORTANT_INDEX) = 1
                      THEN "Qt::blue" ELSE "QVariant()"
               [] m_messageHighlighter = "HighlightUnread" ->
                      IF CachedOrQuery(q, c, row, MSG_DB_READ_INDEX) = 0
                      THEN "Qt::blue" ELSE "QVariant()"
               [] OTHER -> "QVariant()"
      [] role = "DecorationRole" ->
             IF col = MSG_DB_READ_INDEX
             THEN (IF CachedOrQuery(q, c, row, MSG_DB_READ_INDEX) = 1
                   THEN "m_readIcon" ELSE "m_unreadIcon")
             ELSE IF col = MSG_DB_IMPORTANT_INDEX
             THEN (IF CachedOrQuery(q, c, row, MSG_DB_IMPORTANT_INDEX) = 1
                   THEN "m_favoriteIcon" ELSE "QVariant()")
             ELSE "QVariant()"
      [] OTHER -> "QVariant()"

\* MessagesModel::messageAt
messageAt(q, c, row) == IF containsData(c, row) THEN c[row] ELSE q[row]

\* The ids of the messages of the rows, as messageAt gives them.
message_ids(q, c, rows) == {messageAt(q, c, row).id : row \in rows}

\* DatabaseQueries::markMessagesReadUnread
markMessagesReadUnread(table, ids, read) ==
    [i \in DOMAIN table |-> IF i \in ids THEN [table[i] EXCEPT !.is_read = read] ELSE table[i]]

\* DatabaseQueries::markMessageImportant
markMessageImportant(table, id, importance) ==
    [i \in DOMAIN table |->
        IF i = id THEN [table[i] EXCEPT !.is_important = importance] ELSE table[i]]

\* DatabaseQueries::switchMessagesImportance
switchMessagesImportance(table, ids) ==
    [i \in DOMAIN table |->
        IF i \in ids THEN [table[i] EXCEPT !.is_important = 1 - @] ELSE table[i]]

\* DatabaseQueries::deleteOrRestoreMessagesToFromBin: the move to the bin sets
\* the soft-deleted flag, the restore clears both deleted flags.
deleteOrRestoreMessagesToFromBin(table, ids, deleted) ==
    [i \in DOMAIN table |->
        IF i \in ids
        THEN (IF deleted THEN [table[i] EXCEPT !.is_deleted = 1]
              ELSE [table[i] EXCEPT !.is_deleted = 0, !.is_pdeleted = 0])
        ELSE table[i]]

\* DatabaseQueries::permanentlyDeleteMessages: the purge sets the
\* permanently-deleted flag.
permanentlyDeleteMessages(table, ids) ==
    [i \in DOMAIN table |->
        IF i \in ids THEN [table[i] EXCEPT !.is_pdeleted = 1] ELSE table[i]]

\* What the owning service and the database answer during one operation: the
\* before hook, the statement, the after hook (the later ones only when
\* they are reached).
HookOutcomes ==
    {o \in [before : BOOLEAN, store : BOOLEAN, after : BOOLEAN] :
        /\ ~o.before => ~o.store
        /\ ~o.store => ~o.after}

\* The record of a call of the MessagesModel.
MessageCall(name, rows, value, steps, notified, result, stored) ==
    [no |-> call.no + 1, name |-> name, rows |-> rows, value |-> value, steps |-> steps,
     notified |-> notified, result |-> result, stored |-> stored, column |-> "",
     answers |-> NoMessageCall.answers]

\* The record of a call that asks the owning service and the database, with
\* their answers o.
HookedCall(o, name, rows, value, steps, notified, result, stored) ==
    [MessageCall(name, rows, value, steps, notified, result, stored)
        EXCEPT !.answers = [asked |-> TRUE, before |-> o.before, store |-> o.store,
                            after |-> o.after]]

\* The steps from the before hook on: the statement when the hook accepts, the
\* after hook when the statement succeeds.
StepsFromHook(o, statement) ==
    <<"onBefore">> \o (IF o.before
                       THEN <<statement>> \o (IF o.store THEN <<"onAfter">> ELSE <<>>)
                       ELSE <<>>)

\* The main thread is free, a further call on the messages is within the bound,
\* and the frame of every such call.
MessagesModelCalled ==
    /\ pc = "idle"
    /\ call.no < MaxCalls
    /\ UNCHANGED <<treeVars, loadVars, feedVars, op, passVars, mergeVars, lockVars, tx>>

\* MessagesModel::repopulate with the filter f
repopulate(f) ==
    /\ m_cache' = <<>>
    /\ records' = selectStatement(messages, f)

\* As loadMessages, without the repopulate after a failed load.
loadMessages_NoRepopulateOnFailure(item, loaded) ==
    /\ m_selectedItem' = item
    /\ filter' = IF item = "nullptr" THEN DEFAULT_SQL_MESSAGES_FILTER
                 ELSE IF loaded THEN item ELSE "true != true"
    /\ IF item /= "nullptr" /\ ~loaded
       THEN UNCHANGED <<m_cache, records>>
       ELSE repopulate(filter')
    /\ call' = MessageCall("loadMessages", {}, 0,
                           IF item = "nullptr" THEN <<"setFilter", "repopulate">>
                           ELSE IF loaded THEN <<"loadMessagesForItem", "repopulate">>
                           ELSE <<"loadMessagesForItem", "setFilter", "showGuiMessage">>,
                           item /= "nullptr" /\ ~loaded, item = "nullptr" \/ loaded, <<>>)
    /\ UNCHANGED <<messages, m_messageHighlighter>>

\* MessagesModel::loadMessages; loaded is what loadMessagesForItem returns,
\* having installed the filter of the item when it is true (the call records
\* it as its result).
loadMessages(item, loaded) ==
    /\ m_selectedItem' = item
    /\ filter' = IF item = "nullptr" THEN DEFAULT_SQL_MESSAGES_FILTER
                 ELSE IF loaded THEN item ELSE "true != true"
    /\ repopulate(filter')
    /\ call' = MessageCall("loadMessages", {}, 0,
                           IF item = "nullptr" THEN <<"setFilter", "repopulate">>
                           ELSE IF loaded THEN <<"loadMessagesForItem", "repopulate">>
                           ELSE <<"loadMessagesForItem", "setFilter", "showGuiMessage",
                                  "repopulate">>,
                           item /= "nullptr" /\ ~loaded, item = "nullptr" \/ loaded, <<>>)
    /\ UNCHANGED <<messages, m_messageHighlighter>>

LoadMessages ==
    /\ MessagesModelCalled
    /\ \E item \in LoadableItems \cup {"nullptr"}, loaded \in BOOLEAN :
           /\ item = "nullptr" => loaded
           /\ loadMessages(item, loaded)

\* MessagesModel::repopulate, called when new data has landed
Repopulate ==
    /\ MessagesModelCalled
    /\ repopulate(filter)
    /\ call' = MessageCall("repopulate", {}, 0, <<"repopulate">>, FALSE, TRUE, <<>>)
    /\ UNCHANGED <<messages, m_selectedItem, m_messageHighlighter, filter>>

\* MessagesModel::highlightMessages
highlightMessages(highlight) ==
    /\ m_messageHighlighter' = highlight
    /\ call' = MessageCall("highlightMessages", {}, 0, <<>>, FALSE, TRUE, <<>>)
    /\ UNCHANGED <<messages, m_selectedItem, filter, records, m_cache>>

HighlightMessages ==
    /\ MessagesModelCalled
    /\ \E highlight \in MessageHighlighters :
           /\ highlight /= m_messageHighlighter
           /\ highlightMessages(highlight)

\* The row of the first message with the id, 0 when no row has it: the scan
\* of setMessageReadById.
RowOfId(id) ==
    LET found == {i \in DOMAIN records :
                     data(records, m_cache, i, MSG_DB_ID_INDEX, "EditRole") = id}
    IN IF found = {} THEN 0 ELSE CHOOSE i \in found : \A j \in found : i <= j

\* The body of setMessageReadById (and of setMessageImportantById, for the
\* column of the importance)
SetById(name, id, col, value) ==
    LET row == RowOfId(id)
    IN /\ m_cache' = IF row = 0 THEN m_cache ELSE setData(records, m_cache, row, col, value)
       /\ call' = MessageCall(name, IF row = 0 THEN {} ELSE {row}, value,
                              IF row = 0 THEN <<>> ELSE <<"setData">>, FALSE, row /= 0, <<>>)
       /\ UNCHANGED <<messages, m_selectedItem, m_messageHighlighter, filter, records>>

\* MessagesModel::setMessageReadById
setMessageReadById(id, read) == SetById("setMessageReadById", id, MSG_DB_READ_INDEX, read)

SetMessageReadById ==
    /\ MessagesModelCalled
    /\ \E id \in DOMAIN messages, read \in {0, 1} : setMessageReadById(id, read)

\* The importance of the messages of the rows before a call, in the store and
\* as the model shows it: what a call that switches the importance records.
ImportanceBefore(rows) ==
    [row \in rows |->
        [id |-> messageAt(records, m_cache, row).id,
         store |-> messages[messageAt(records, m_cache, row).id].is_important,
         cache |-> CachedOrQuery(records, m_cache, row, MSG_DB_IMPORTANT_INDEX)]]

\* As setMessageRead, with the statement executed after a veto too.
setMessageRead_IgnoresVeto(row_index, read, o) ==
    LET message == messageAt(records, m_cache, row_index)
    IN /\ m_cache' = setData(records, m_cache, row_index, MSG_DB_READ_INDEX, read)
       /\ messages' = markMessagesReadUnread(messages, {message.id}, read)
       /\ call' = HookedCall(o, "setMessageRead", {row_index}, read,
                              <<"onBefore", "setData", "markMessagesReadUnread", "onAfter">>,
                              FALSE, o.after, <<>>)

\* MessagesModel::setMessageRead
setMessageRead(row_index, read, o) ==
    IF data(records, m_cache, row_index, MSG_DB_READ_INDEX, "EditRole") = read
    THEN /\ call' = MessageCall("setMessageRead", {row_index}, read, <<>>, FALSE, TRUE, <<>>)
         /\ UNCHANGED <<messages, m_cache>>
    ELSE LET message == messageAt(records, m_cache, row_index)
         IN /\ m_cache' = IF o.before
                          THEN setData(records, m_cache, row_index, MSG_DB_READ_INDEX, read)
                          ELSE m_cache
            /\ messages' = IF o.before /\ o.store
                           THEN markMessagesReadUnread(messages, {message.id}, read)
                           ELSE messages
            /\ call' = HookedCall(o, "setMessageRead", {row_index}, read,
                                   <<"onBefore">>
                                       \o (IF o.before
                                           THEN <<"setData", "markMessagesReadUnread">>
                                                    \o (IF o.store THEN <<"onAfter">> ELSE <<>>)
                                           ELSE <<>>),
                                   FALSE, o.before /\ o.store /\ o.after, <<>>)

\* MessagesModel::switchMessageImportance
switchMessageImportance(row_index, o) ==
    LET current_importance ==
            data(records, m_cache, row_index, MSG_DB_IMPORTANT_INDEX, "EditRole")
        next_importance == IF current_importance = 1 THEN 0 ELSE 1
        message == messageAt(records, m_cache, row_index)
    IN /\ m_cache' = IF o.before
                     THEN setData(records, m_cache, row_index, MSG_DB_IMPORTANT_INDEX,
                                  next_importance)
                     ELSE m_cache
       /\ messages' = IF o.before /\ o.store
                      THEN markMessageImportant(messages, message.id, next_importance)
                      ELSE messages
       /\ call' = HookedCall(o, "switchMessageImportance", {row_index}, next_importance,
                              <<"onBefore">>
                                  \o (IF o.before
                                      THEN <<"setData", "markMessageImportant">>
                                               \o (IF o.store THEN <<"onAfter">> ELSE <<>>)
                                      ELSE <<>>),
                              FALSE, o.before /\ o.store /\ o.after,
                              ImportanceBefore({row_index}))

\* MessagesModel::switchBatchMessageImportance
switchBatchMessageImportance(rows, o) ==
    LET ids == message_ids(records, m_cache, rows)
        toggled == [row \in rows |->
                       IF data(records, m_cache, row, MSG_DB_IMPORTANT_INDEX, "EditRole") = 1
                       THEN 0 ELSE 1]
    IN /\ m_cache' = setDataForEach(records, m_cache, rows, MSG_DB_IMPORTANT_INDEX, toggled)
       /\ messages' = IF o.before /\ o.store
                      THEN switchMessagesImportance(messages, ids)
                      ELSE messages
       /\ call' = HookedCall(o, "switchBatchMessageImportance", rows, 0,
                              <<"setData">> \o StepsFromHook(o, "switchMessagesImportance"),
                              FALSE, o.before /\ o.store /\ o.after,
                              ImportanceBefore(rows))

\* As setBatchMessagesDeleted, with the statement picked by the opposite test.
setBatchMessagesDeleted_WrongStatement(rows, o) ==
    LET ids == message_ids(records, m_cache, rows)
        is_bin == IsRecycleBin(m_selectedItem)
        column == IF is_bin THEN MSG_DB_PDELETED_INDEX ELSE MSG_DB_DELETED_INDEX
        statement == IF ItemKind(m_selectedItem) = "Bin"
                     THEN "deleteOrRestoreMessagesToFromBin"
                     ELSE "permanentlyDeleteMessages"
    IN /\ m_cache' = setDataForEach(records, m_cache, rows, column, [row \in rows |-> 1])
       /\ messages' = IF o.before /\ o.store
                      THEN (IF ItemKind(m_selectedItem) = "Bin"
                            THEN deleteOrRestoreMessagesToFromBin(messages, ids, TRUE)
                            ELSE permanentlyDeleteMessages(messages, ids))
                      ELSE messages
       /\ call' = [HookedCall(o, "setBatchMessagesDeleted", rows, 1,
                               <<"setData">> \o StepsFromHook(o, statement),
                               FALSE, o.before /\ o.store /\ o.after, <<>>)
                       EXCEPT !.column = column]

\* MessagesModel::setBatchMessagesDeleted
setBatchMessagesDeleted(rows, o) ==
    LET ids == message_ids(records, m_cache, rows)
        is_bin == IsRecycleBin(m_selectedItem)
        column == IF is_bin THEN MSG_DB_PDELETED_INDEX ELSE MSG_DB_DELETED_INDEX
        statement == IF ItemKind(m_selectedItem) /= "Bin"
                     THEN "deleteOrRestoreMessagesToFromBin"
                     ELSE "permanentlyDeleteMessages"
    IN /\ m_cache' = setDataForEach(records, m_cache, rows, column, [row \in rows |-> 1])
       /\ messages' = IF o.before /\ o.store
                      THEN (IF ItemKind(m_selectedItem) /= "Bin"
                            THEN deleteOrRestoreMessagesToFromBin(messages, ids, TRUE)
                            ELSE permanentlyDeleteMessages(messages, ids))
                      ELSE messages
       /\ call' = [HookedCall(o, "setBatchMessagesDeleted", rows, 1,
                               <<"setData">> \o StepsFromHook(o, statement),
                               FALSE, o.before /\ o.store /\ o.after, <<>>)
                       EXCEPT !.column = column]

\* As setBatchMessagesRead, with the after hook's result dropped.
setBatchMessagesRead_ResultTrue(rows, read, o) ==
    LET ids == message_ids(records, m_cache, rows)
    IN /\ m_cache' = setDataForEach(records, m_cache, rows, MSG_DB_READ_INDEX,
                                    [row \in rows |-> read])
       /\ messages' = IF o.before /\ o.store
                      THEN markMessagesReadUnread(messages, ids, read)
                      ELSE messages
       /\ call' = HookedCall(o, "setBatchMessagesRead", rows, read,
                              <<"setData">> \o StepsFromHook(o, "markMessagesReadUnread"),
                              FALSE, o.before /\ o.store, <<>>)

\* MessagesModel::setBatchMessagesRead
setBatchMessagesRead(rows, read, o) ==
    LET ids == message_ids(records, m_cache, rows)
    IN /\ m_cache' = setDataForEach(records, m_cache, rows, MSG_DB_READ_INDEX,
                                    [row \in rows |-> read])
       /\ messages' = IF o.before /\ o.store
                      THEN markMessagesReadUnread(messages, ids, read)
                      ELSE messages
       /\ call' = HookedCall(o, "setBatchMessagesRead", rows, read,
                              <<"setData">> \o StepsFromHook(o, "markMessagesReadUnread"),
                              FALSE, o.before /\ o.store /\ o.after, <<>>)

\* As setBatchMessagesRestored, with the permanently-deleted flag left in the
\* cache.
setBatchMessagesRestored_KeepsPdeleted(rows, o) ==
    LET ids == message_ids(records, m_cache, rows)
    IN /\ m_cache' = setDataForEach(records, m_cache, rows, MSG_DB_DELETED_INDEX,
                                    [row \in rows |-> 0])
       /\ messages' = IF o.before /\ o.store
                      THEN deleteOrRestoreMessagesToFromBin(messages, ids, FALSE)
                      ELSE messages
       /\ call' = HookedCall(o, "setBatchMessagesRestored", rows, 0,
                              <<"setData">>
                                  \o StepsFromHook(o, "deleteOrRestoreMessagesToFromBin"),
                              FALSE, o.before /\ o.store /\ o.after, <<>>)

\* MessagesModel::setBatchMessagesRestored
setBatchMessagesRestored(rows, o) ==
    LET ids == message_ids(records, m_cache, rows)
        pdeleted_cleared == setDataForEach(records, m_cache, rows, MSG_DB_PDELETED_INDEX,
                                           [row \in rows |-> 0])
    IN /\ m_cache' = setDataForEach(records, pdeleted_cleared, rows, MSG_DB_DELETED_INDEX,
                                    [row \in rows |-> 0])
       /\ messages' = IF o.before /\ o.store
                      THEN deleteOrRestoreMessagesToFromBin(messages, ids, FALSE)
                      ELSE messages
       /\ call' = HookedCall(o, "setBatchMessagesRestored", rows, 0,
                              <<"setData">>
                                  \o StepsFromHook(o, "deleteOrRestoreMessagesToFromBin"),
                              FALSE, o.before /\ o.store /\ o.after, <<>>)

\* A call of a message operation on rows of the loaded item: the view, the
\* highlighter, the filter and the fetched rows stay.
MessageOperation ==
    /\ MessagesModelCalled
    /\ m_selectedItem /= "nullptr"
    /\ UNCHANGED <<m_selectedItem, m_messageHighlighter, filter, records>>

BatchRows == SUBSET (DOMAIN records) \ {{}}

SetMessageRead ==
    /\ MessageOperation
    /\ \E row_index \in DOMAIN records, read \in {0, 1}, o \in HookOutcomes :
           setMessageRead(row_index, read, o)

SwitchMessageImportance ==
    /\ MessageOperation
    /\ \E row_index \in DOMAIN records, o \in HookOutcomes :
           switchMessageImportance(row_index, o)

SwitchBatchMessageImportance ==
    /\ MessageOperation
    /\ \E rows \in BatchRows, o \in HookOutcomes : switchBatchMessageImportance(rows, o)

SetBatchMessagesDeleted ==
    /\ MessageOperation
    /\ \E rows \in BatchRows, o \in HookOutcomes : setBatchMessagesDeleted(rows, o)

SetBatchMessagesRead ==
    /\ MessageOperation
    /\ \E rows \in BatchRows, read \in {0, 1}, o \in HookOutcomes :
           setBatchMessagesRead(rows, read, o)

SetBatchMessagesRestored ==
    /\ MessageOperation
    /\ \E rows \in BatchRows, o \in HookOutcomes : setBatchMessagesRestored(rows, o)

\* A message operation while no item is loaded: m_selectedItem is
\* dereferenced for the before hook.
MessageOperationWithoutItem ==
    /\ pc = "idle"
    /\ filter /= ""
    /\ m_selectedItem = "nullptr"
    /\ records /= <<>>
    /\ pc' = "crashed"
    /\ UNCHANGED <<treeVars, categories, scan, assignments, feeds, declared, feedVars, op,
                   passVars, extVars>>

\* The messages the recycle bin holds: soft-deleted and not purged, of any feed.
BinMessages == {i \in DOMAIN messages : Matches("RecycleBin", messages[i])}

\* RecycleBin::empty: every message of the bin is purged.
RecycleBin_empty ==
    messages' = permanentlyDeleteMessages(messages, BinMessages)

\* RecycleBin::restore: every message of the bin is restored.
RecycleBin_restore ==
    messages' = deleteOrRestoreMessagesToFromBin(messages, BinMessages, FALSE)

\* FeedsModel::reloadChangedLayout: dataChanged for each given index.
reloadChangedLayout == <<"dataChanged">>

\* FeedsModel::reloadWholeLayout
reloadWholeLayout == <<"layoutAboutToBeChanged", "layoutChanged">>

\* FeedsView::updateCountsOfSelectedFeeds: the counts of the selected feeds
\* and of the bin, then the changed rows are reloaded.
updateCountsOfSelectedFeeds(update_total_too) ==
    <<"Feed::updateCounts(selected)">>
        \o (IF update_total_too THEN <<"RecycleBin::updateCounts">> ELSE <<>>)
        \o reloadChangedLayout \o <<"notifyWithCounts">>

\* FeedsView::updateCountsOfAllFeeds: the counts of all feeds and of the bin,
\* then the whole layout is reloaded.
updateCountsOfAllFeeds(update_total_too) ==
    <<"Feed::updateCounts(all)">>
        \o (IF update_total_too THEN <<"RecycleBin::updateCounts">> ELSE <<>>)
        \o reloadWholeLayout \o <<"notifyWithCounts">>

\* FeedsView::emptyRecycleBin: the bin is emptied when the user confirms.
emptyRecycleBin ==
    /\ MessagesModelCalled
    /\ filter /= ""
    /\ BinMessages /= {}
    /\ \E answer \in {"Yes", "No"} :
        IF answer = "Yes"
        THEN /\ RecycleBin_empty
             /\ call' = MessageCall("emptyRecycleBin", BinMessages, 1,
                            <<"permanentlyDeleteMessages">> \o updateCountsOfSelectedFeeds(TRUE)
                                \o <<"feedsNeedToBeReloaded">>,
                            FALSE, TRUE, <<>>)
        ELSE /\ messages' = messages
             /\ call' = MessageCall("emptyRecycleBin", {}, 0, <<>>, FALSE, FALSE, <<>>)
    /\ UNCHANGED <<m_selectedItem, m_messageHighlighter, filter, records, m_cache>>

\* FeedsView::restoreRecycleBin
restoreRecycleBin ==
    /\ MessagesModelCalled
    /\ filter /= ""
    /\ BinMessages /= {}
    /\ RecycleBin_restore
    /\ call' = MessageCall("restoreRecycleBin", BinMessages, 0,
                   <<"deleteOrRestoreMessagesToFromBin">> \o updateCountsOfAllFeeds(TRUE)
                       \o <<"feedsNeedToBeReloaded">>,
                   FALSE, TRUE, <<>>)
    /\ UNCHANGED <<m_selectedItem, m_messageHighlighter, filter, records, m_cache>>

\* The MessagesModel after its construction and a load of an item, over a
\* table of fetched messages of which some are moved to the bin.
InitMessages ==
    /\ EmptyTree
    /\ title = [n \in Nodes |-> ""]
    /\ model = NoModel
    /\ merge = NoMerge
    /\ messages \in {t \in [1..MaxMessages -> MessageRecords] :
                        \A i \in DOMAIN t :
                            /\ t[i].feed = (IF i = 1 THEN "Blog" ELSE "Other")
                            /\ t[i].is_read = 0
                            /\ t[i].is_important = 0
                            /\ t[i].is_pdeleted = 0}
    /\ tx = NoTransaction
    /\ lock = "free"
    /\ globalAutoUpdate = [enabled |-> FALSE, initial |-> 0, remaining |-> 0]
    /\ entry = NoEntry
    /\ running = NoRunning
    /\ m_selectedItem \in LoadableItems \cup {"nullptr"}
    /\ m_messageHighlighter = "NoHighlighting"
    /\ filter = IF m_selectedItem = "nullptr" THEN DEFAULT_SQL_MESSAGES_FILTER
                ELSE m_selectedItem
    /\ records = selectStatement(messages, filter)
    /\ m_cache = <<>>
    /\ call = NoMessageCall

NextMessages ==
    \/ LoadMessages
    \/ Repopulate
    \/ HighlightMessages
    \/ SetMessageReadById
    \/ SetMessageRead
    \/ SwitchMessageImportance
    \/ SwitchBatchMessageImportance
    \/ SetBatchMessagesDeleted
    \/ SetBatchMessagesRead
    \/ SetBatchMessagesRestored
    \/ MessageOperationWithoutItem
    \/ emptyRecycleBin
    \/ restoreRecycleBin

SpecMessages == InitMessages /\ [][NextMessages]_vars

\* ================================================================= claims
Last(s) == s[Len(s)]

BinIsLastChild == childItems[m_rootItem] /= <<>> /\ Last(childItems[m_rootItem]) = m_recycleBin

\* The last call put an item at the end of the children of the root item.
AppendedUnderRoot ==
    /\ op.name \in {"addCategory", "addFeed", "reassignNodeToNewParent"}
    /\ op.target = m_rootItem
    /\ op.events /= <<>>

C2_ParentMatchesContainer ==
    pc = "idle" =>
        /\ {n \in Nodes : kind[n] = "Root"} = {m_rootItem}
        /\ m_rootItem \in heap
        /\ \A m \in Nodes : m_rootItem \notin Range(childItems[m])
        /\ \A m \in Nodes : Range(childItems[m]) \subseteq heap
        /\ \A n \in heap \ {m_rootItem} :
               /\ parent[n] \in heap
               /\ Occurrences(childItems[parent[n]], n) = 1
               /\ \A m \in Nodes \ {parent[n]} : n \notin Range(childItems[m])

\* C2 witness: an item was moved below another parent that has items already.
C2_Witness ==
    /\ pc = "idle"
    /\ op.name = "reassignNodeToNewParent" /\ op.events /= <<>>
    /\ Len(childItems[op.target]) >= 2

\* The items strictly below an item.
Descendants(n) == Below(childItems, Range(childItems[n]), Cardinality(Nodes))

\* C3: the tree is acyclic: no item is its own ancestor and every item that
\* was not removed can be reached from the root item through child links.
C3_Acyclic ==
    pc = "idle" =>
        /\ \A n \in heap : n \notin Descendants(n)
        /\ heap \subseteq Reachable

\* C4: removeItem returns true exactly when the index is valid and the item
\* was deleted from the database; then the item and all its descendants are
\* gone from the tree; otherwise the tree is unchanged and no structural
\* notification is emitted.
C4_RemoveItem ==
    [][op'.name = "removeItem" =>
         /\ op'.result = (op'.node /= NoNode /\ op'.stored)
         /\ op'.result =>
              LET gone == Subtree(childItems, op'.node)
              IN /\ op'.freed = gone
                 /\ gone \cap heap' = {}
                 /\ \A m \in Nodes : Range(childItems'[m]) \cap gone = {}
                 /\ \A m \in Nodes \ gone :
                        /\ parent'[m] = parent[m]
                        /\ childItems'[m] = SelectSeq(childItems[m], LAMBDA x : x \notin gone)
                 /\ op'.events = <<"beginRemoveRows", "endRemoveRows">>
         /\ ~op'.result => /\ UNCHANGED treeVars
                           /\ op'.events = <<>>
                           /\ op'.freed = {}]_vars

\* C4 witness: a category was removed together with an item below it.
C4_Witness ==
    /\ op.name = "removeItem" /\ op.result
    /\ Cardinality(op.freed) >= 2

\* C5: addCategory and addFeed return whether the item was stored; if it was,
\* the item is the last child of the parent and every other item keeps its
\* parent and its position; if it was not, the tree is unchanged, no
\* structural notification is emitted and the new object is deleted.
C5_AddItem ==
    [][op'.name \in {"addCategory", "addFeed"} =>
         LET c == op'.node
             p == op'.target
         IN /\ op'.result = op'.stored
            /\ op'.result =>
                 /\ childItems' = [childItems EXCEPT ![p] = Append(@, c)]
                 /\ parent' = [parent EXCEPT ![c] = p]
                 /\ heap' = heap \cup {c}
                 /\ kind'[c] = (IF op'.name = "addCategory" THEN "Category" ELSE "Feed")
                 /\ op'.events = <<"beginInsertRows", "endInsertRows">>
            /\ ~op'.result =>
                 /\ UNCHANGED treeVars
                 /\ c \notin heap'
                 /\ op'.freed = {c}
                 /\ op'.events = <<>>]_vars

\* C5 witness: a category that could not be stored was given to addCategory
\* with a category as the parent.
C5_Witness ==
    /\ op.name = "addCategory" /\ ~op.result
    /\ op.target /= m_rootItem

\* The feeds of the tree that count an interval of their own and started a
\* full interval (remaining = initial) before the first pass.
FullIntervalFeeds ==
    {f \in Range(allFeeds) :
        /\ autoUpdateType[f] = "SpecificAutoUpdate"
        /\ autoUpdateInitialInterval[f] >= 1
        /\ startRemaining[f] = autoUpdateInitialInterval[f]}

\* C6: a feed with an interval of its own that starts with initial =
\* remaining = n is in the list of pass k exactly when k is a multiple of n,
\* whatever auto_update_now is; after that pass its remaining interval is
\* reset to n, and after every other pass it is one less than before.
C6_SpecificIntervalCadence ==
    (pc = "idle" /\ passNo >= 1) =>
        \A f \in FullIntervalFeeds :
            LET n == autoUpdateInitialInterval[f]
            IN /\ (f \in Range(feeds_for_update)) <=> (passNo % n = 0)
               /\ autoUpdateRemainingInterval[f] = n - (passNo % n)

\* C6 witness: a feed with the interval 3 is included by the third pass and
\* its remaining interval is 3 again.
C6_Witness ==
    /\ passNo = 3
    /\ \E f \in FullIntervalFeeds :
           /\ autoUpdateInitialInterval[f] = 3
           /\ f \in Range(feeds_for_update)
           /\ autoUpdateRemainingInterval[f] = 3
           /\ ~auto_update_now

\* C7: a feed that is never auto-updated is in no returned list, a feed with
\* the global interval is in the returned list exactly when auto_update_now
\* is set; a pass changes no attribute of these feeds, and the returned list
\* holds the feeds in the order of the traversal of the tree.
C7_DisabledAndGlobalFeeds ==
    /\ []((pc = "idle" /\ passNo >= 1) =>
            /\ \A f \in Range(allFeeds) :
                 /\ autoUpdateType[f] = "DontAutoUpdate" => f \notin Range(feeds_for_update)
                 /\ autoUpdateType[f] = "DefaultAutoUpdate" =>
                        ((f \in Range(feeds_for_update)) <=> auto_update_now)
            /\ feeds_for_update =
                   SelectSeq(allFeeds, LAMBDA f : f \in Range(feeds_for_update)))
    /\ [][passNo' /= passNo =>
            \A f \in Range(allFeeds) :
                autoUpdateType[f] \in {"DontAutoUpdate", "DefaultAutoUpdate"} =>
                    /\ autoUpdateType'[f] = autoUpdateType[f]
                    /\ autoUpdateInitialInterval'[f] = autoUpdateInitialInterval[f]
                    /\ autoUpdateRemainingInterval'[f] = autoUpdateRemainingInterval[f]]_vars

\* C7 witness: a pass with auto_update_now set returned two feeds, one of them
\* with the global interval, next to a feed that is never auto-updated.
C7_Witness ==
    /\ passNo >= 1 /\ auto_update_now
    /\ Len(feeds_for_update) >= 2
    /\ \E f \in Range(feeds_for_update) : autoUpdateType[f] = "DefaultAutoUpdate"

\* C8: every feed with an interval of its own that starts with
\* 1 <= remaining <= initial has 1 <= remaining <= initial after every pass.
C8_RemainingWithinInitial ==
    \A f \in Range(allFeeds) :
        (/\ autoUpdateType[f] = "SpecificAutoUpdate"
         /\ 1 <= startRemaining[f]
         /\ startRemaining[f] <= autoUpdateInitialInterval[f])
        => /\ 1 <= autoUpdateRemainingInterval[f]
           /\ autoUpdateRemainingInterval[f] <= autoUpdateInitialInterval[f]

\* C8 witness: after some passes a feed that started in the middle of its
\* interval has been reset to its initial interval.
C8_Witness ==
    /\ passNo >= 2
    /\ \E f \in Range(allFeeds) :
           /\ autoUpdateType[f] = "SpecificAutoUpdate"
           /\ startRemaining[f] < autoUpdateInitialInterval[f]
           /\ autoUpdateRemainingInterval[f] = autoUpdateInitialInterval[f]
           /\ f \in Range(feeds_for_update)

\* The categories read by the load, and the item a declared parent id names.
LoadedCategories == {n \in DOMAIN declared : kind[n] = "Category"}

DeclaredParent(n) ==
    IF declared[n] = NO_PARENT_CATEGORY THEN m_rootItem ELSE CategoryNode(declared[n])

\* The loaded categories whose declared parent resolves: it is the root item
\* or a loaded category that itself resolves.
RECURSIVE ResolvingFrom(_)
ResolvingFrom(done) ==
    LET more == {n \in LoadedCategories : DeclaredParent(n) \in done \cup {m_rootItem}}
    IN IF more \subseteq done THEN done ELSE ResolvingFrom(done \cup more)

ResolvingCategories == ResolvingFrom({})

AllCategoriesResolve == LoadedCategories \subseteq ResolvingCategories

\* The category is a child, once, of the item its declared parent id names.
AttachedAsDeclared(n) ==
    /\ parent[n] = DeclaredParent(n)
    /\ Occurrences(childItems[DeclaredParent(n)], n) = 1
    /\ \A m \in Nodes \ {DeclaredParent(n)} : n \notin Range(childItems[m])

AssemblyOver == pc \in {"assembleFeeds", "appendBin"}

\* C9: for category rows that form a valid forest, in any order,
\* assembleCategories returns, and then every category is a child of the item
\* whose id is its declared parent id (the root item for the sentinel).
C9_ValidForestAssembles ==
    /\ AllCategoriesResolve => <>AssemblyOver
    /\ []((AllCategoriesResolve /\ AssemblyOver) =>
             \A n \in LoadedCategories : AttachedAsDeclared(n))

\* C9 witness: two categories, one declared below the other, are assembled.
C9_Witness ==
    /\ AssemblyOver
    /\ AllCategoriesResolve
    /\ \E n \in LoadedCategories : DeclaredParent(n) \in LoadedCategories
    /\ \A n \in LoadedCategories : AttachedAsDeclared(n)

\* C10: for category rows of which at least one names a parent that never
\* resolves, assembleCategories returns, with that category and every
\* category depending on it left out of the tree and every other category
\* attached under its declared parent.
C10_OrphansDroppedAssemblyReturns ==
    ~AllCategoriesResolve =>
        <>(/\ AssemblyOver
           /\ \A n \in ResolvingCategories : AttachedAsDeclared(n)
           /\ \A n \in LoadedCategories \ ResolvingCategories :
                  \A m \in Nodes : n \notin Range(childItems[m]))

\* The feeds read by the load.
LoadedFeeds == {n \in DOMAIN declared : kind[n] = "Feed"}

\* The item is a child, once, of the item p and of no other item.
ChildOfOnly(n, p) ==
    /\ parent[n] = p
    /\ Occurrences(childItems[p], n) = 1
    /\ \A m \in Nodes \ {p} : n \notin Range(childItems[m])

\* The categories of the tree that carry the given id.
AttachedCategoriesWithId(id) ==
    {c \in Reachable : kind[c] = "Category" /\ ItemId(c) = id}

LooseFeed(f) ==
    declared[f] /= NO_PARENT_CATEGORY /\ AttachedCategoriesWithId(declared[f]) = {}

FeedAttachedAsDeclared(f) ==
    IF declared[f] = NO_PARENT_CATEGORY THEN ChildOfOnly(f, m_rootItem)
    ELSE IF LooseFeed(f)
    THEN parent[f] = NoNode /\ \A m \in Nodes : f \notin Range(childItems[m])
    ELSE \E c \in AttachedCategoriesWithId(declared[f]) : ChildOfOnly(f, c)

C12_ReloadKeepsLiveRecycleBin ==
    pc = "idle" =>
        /\ m_recycleBin \in heap
        /\ kind[m_recycleBin] = "Bin"
        /\ Occurrences(childItems[m_rootItem], m_recycleBin) = 1
        /\ BinIsLastChild
        /\ Range(childItems[m_rootItem]) \subseteq heap

\* The import has returned, and it was given a model with a root item.
MergeReturned == merge.pc = "done" /\ model.rootItem /= NoSourceItem

SourceParentOf(s) ==
    CHOOSE q \in DOMAIN model.childItems : s \in Range(model.childItems[q])

\* The source item and all items above it are checked.
RECURSIVE CheckedWithAncestors(_)
CheckedWithAncestors(s) ==
    \/ s = model.rootItem
    \/ model.checked[s] /\ CheckedWithAncestors(SourceParentOf(s))

\* The categories of the tree that were there before the import.
OwnCategories == {n \in Reachable : kind[n] = "Category" /\ n \notin DOMAIN merge.cloneOf}

\* C13 (as stated, for the root item as the target parent): when the import
\* has returned, for a checked top-level category of the source and a
\* category of the same title that the root item had before, the checked
\* children of the source category were processed with the existing category
\* as the target parent, their clones are children of it, and the root item
\* has one category of that title.
C13_MergedIntoExistingCategory ==
    MergeReturned =>
        \A c \in Range(model.childItems[model.rootItem]) :
            \A A \in OwnCategories :
                (/\ model.kind[c] = "Category"
                 /\ model.checked[c]
                 /\ parent[A] = m_rootItem
                 /\ title[A] = model.title[c])
                => /\ \A s \in Range(model.childItems[c]) :
                          model.checked[s] =>
                              /\ s \in DOMAIN merge.visited
                              /\ merge.visited[s] = A
                              /\ \A n \in DOMAIN merge.cloneOf :
                                     merge.cloneOf[n] = s => parent[n] = A
                   /\ Cardinality({n \in Range(childItems[m_rootItem]) :
                                      kind[n] = "Category" /\ title[n] = title[A]}) = 1

SuccessMessage == "Import was completely successfull."
PartialMessage == "Import successfull, but some feeds/categories were not imported due to error."

\* The source items for which the import has neither a clone in the tree nor
\* a category of the tree it went on into, although it processed them checked.
NotImported ==
    {s \in DOMAIN merge.visited :
        /\ model.checked[s]
        /\ s \notin DOMAIN merge.descended
        /\ \A n \in DOMAIN merge.cloneOf : merge.cloneOf[n] /= s}

\* C14: when mergeModel has returned for a model that has a root item, it
\* returned true iff no item failed during the whole import, with the message
\* of the complete success iff it returned true and the message of the
\* partial failure iff it returned false; the items that failed are those the
\* import processed and did not import.
C14_MergeResultIffNoFailure ==
    MergeReturned =>
        /\ merge.result <=> merge.failed = {}
        /\ merge.failed = NotImported
        /\ merge.output_message = SuccessMessage <=> merge.result
        /\ merge.output_message = PartialMessage <=> ~merge.result

\* C14 witness: an import returns false after it imported one feed and failed
\* on another.
C14_Witness ==
    /\ MergeReturned
    /\ ~merge.result
    /\ merge.output_message = PartialMessage
    /\ \E s \in merge.failed : model.kind[s] = "Feed"
    /\ \E n \in DOMAIN merge.cloneOf : model.kind[merge.cloneOf[n]] = "Feed"

\* C15: every item the import adds to the tree is a clone of a source item
\* that is checked, as are all items above it, and no other source item ever
\* counts as failed.
C15_UncheckedItemsSkipped ==
    /\ \A n \in DOMAIN merge.cloneOf : CheckedWithAncestors(merge.cloneOf[n])
    /\ \A s \in merge.failed : CheckedWithAncestors(s)
    /\ \A n \in Reachable \ OwnCategories :
           kind[n] \in {"Category", "Feed"} => n \in DOMAIN merge.cloneOf

\* C15 witness: an import has returned true for a source with an unchecked
\* category that holds a checked feed, and with another feed that was cloned.
C15_Witness ==
    /\ MergeReturned
    /\ merge.result
    /\ \E c \in DOMAIN merge.visited :
           /\ ~model.checked[c]
           /\ \E s \in Range(model.childItems[c]) : model.checked[s]
    /\ merge.cloneOf /= EmptyHash

\* The source items below a source item.
RECURSIVE SourceBelow(_, _)
SourceBelow(S, k) ==
    IF k = 0 THEN S
    ELSE SourceBelow(S \cup UNION {Range(model.childItems[q]) : q \in S}, k - 1)

SourceDescendants(s) ==
    IF model.rootItem = NoSourceItem THEN {}
    ELSE SourceBelow({s}, Cardinality(DOMAIN model.childItems)) \ {s}

\* C16 (as stated): a checked category that failed has no descendant that was
\* processed or cloned; a checked feed or category that could not be added
\* and, for a category, has no category of its title in the target parent,
\* counts as failed; and an import that has started returns, having processed
\* every child of the source root and of every category it went on into.
C16_FailuresSkipBranchOnly ==
    /\ [](\A s \in merge.failed :
             \A d \in SourceDescendants(s) :
                 /\ d \notin DOMAIN merge.visited
                 /\ \A n \in DOMAIN merge.cloneOf : merge.cloneOf[n] /= d)
    /\ [](MergeReturned => merge.failed = NotImported)
    /\ (merge.pc = "while" /\ model.rootItem /= NoSourceItem)
           ~> (/\ MergeReturned
               /\ \A s \in SourceDescendants(model.rootItem) :
                      (\/ SourceParentOf(s) = model.rootItem
                       \/ SourceParentOf(s) \in DOMAIN merge.descended)
                      => s \in DOMAIN merge.visited)

\* Every call to the database a markFeeds call made reported success.
AllSucceeded(o) == o.transaction /\ o.prepare /\ o.exec /\ o.commit

\* C17 (as stated): markFeedsRead and markFeedsDeleted return true only
\* when the statement was executed and committed; when transaction(),
\* prepare(), exec() or commit() fails they return false and leave the
\* Messages table as it was.
C17_MarkFeedsFailureReturnsFalse ==
    tx.name \in {"markFeedsRead", "markFeedsDeleted"} =>
        /\ tx.result => tx.outcome.exec /\ tx.outcome.commit
        /\ ~AllSucceeded(tx.outcome) => ~tx.result /\ messages = tx.before

\* What a successful call has to leave in a row of the table.
RowAfterMark(row) ==
    IF row.feed \in tx.feeds /\ row.is_deleted = 0
    THEN IF tx.name = "markFeedsRead" THEN [row EXCEPT !.is_read = tx.value]
         ELSE IF tx.read_only /\ row.is_read /= 1 THEN row
         ELSE [row EXCEPT !.is_deleted = tx.value]
    ELSE row

\* C18: a markFeedsRead(feeds, r) call all of whose database calls succeed
\* returns true and has set is_read to r in the rows of the given feeds that
\* were not soft-deleted; such a markFeedsDeleted(feeds, d, readOnly) call
\* returns true and has set is_deleted to d in those rows, with readOnly only
\* in those that were read; every other row and column is as it was.
C18_MarkFeedsUpdatesExactlyTheRows ==
    (tx.name \in {"markFeedsRead", "markFeedsDeleted"} /\ AllSucceeded(tx.outcome)) =>
        /\ tx.result
        /\ DOMAIN messages = DOMAIN tx.before
        /\ \A i \in DOMAIN messages : messages[i] = RowAfterMark(tx.before[i])

\* C18 witness: a successful markFeedsDeleted call with readOnly that changed
\* a read row and left an unread row and a row of another feed alone.
C18_Witness ==
    /\ tx.name = "markFeedsDeleted"
    /\ AllSucceeded(tx.outcome)
    /\ tx.read_only
    /\ \E i, j \in DOMAIN messages :
           /\ messages[i] /= tx.before[i]
           /\ tx.before[j].is_deleted = 0
           /\ messages[j] = tx.before[j]
           /\ (tx.before[j].feed \notin tx.feeds \/ tx.before[j].is_read = 0)

\* The step records an entry into a function that takes the lock.
EntryRecorded == entry' /= entry

\* C19: an entry into addNewCategory, addNewFeed, editSelectedItem,
\* deleteSelectedItem or executeNextAutoUpdate made while the lock is held is
\* turned away: the step changes neither the tree, nor the global counter,
\* nor the remaining interval of a feed, nor the lock, requests no update and
\* leaves nothing behind that would be done later.
C19_EntryWithLockHeldDoesNothing ==
    [][EntryRecorded =>
           /\ lock /= "free" => entry'.refused
           /\ entry'.refused =>
                  /\ lock /= "free"
                  /\ entry'.emitted = <<>>
                  /\ UNCHANGED <<treeVars, loadVars, feedVars, op, passVars, mergeVars,
                                 storeVars, lock, globalAutoUpdate>>]_vars

\* C19 witness: a tick of the timer is turned away while the dialog of
\* addNewCategory is open, with the global counter and the interval of a feed
\* still to run.
C19_Witness ==
    /\ entry.name = "executeNextAutoUpdate"
    /\ entry.refused
    /\ lock = "addNewCategory"
    /\ globalAutoUpdate.remaining > 0
    /\ \E f \in heap : kind[f] = "Feed" /\ autoUpdateRemainingInterval[f] > 1

\* C20 (as stated): while mergeModel runs, the import that called it holds
\* the lock, and every function of the feed view and every tick of the timer
\* that was not turned away held the lock itself.
C20_MutationsRunUnderLock ==
    /\ merge.pc \in {"while", "foreach"} => lock = "importFeeds"
    /\ (entry.name /= "none" /\ ~entry.refused) => entry.held = entry.name

\* ----------------------------------------------------- MessagesModel claims
\* The call that only writes a cell through setData, and the column it writes.
EditPathCalls == {"setMessageReadById"}
EditedColumn == MSG_DB_READ_INDEX
\* The value of a column of a message in the store.
StoreValue(id, col) == IF col = MSG_DB_ID_INDEX THEN id ELSE messages[id][col]
Repopulated == call.steps /= <<>> /\ call.steps[Len(call.steps)] = "repopulate"

\* C21: after a cell is set through setData and before any repopulate, the
\* read of the cell (edit role) returns the new value, and a row with a
\* pending edit keeps one until the next repopulate; after a repopulate the
\* pending-edit cache is empty and every cell reads as the store has it.
C21_EditReadBackThenStoreAfterRepopulate ==
    /\ [](call.name \in EditPathCalls =>
              \A row \in call.rows :
                  data(records, m_cache, row, EditedColumn, "EditRole") = call.value)
    /\ [][\A row \in DOMAIN m_cache :
              (call' = call \/ ~(\E k \in DOMAIN call'.steps : call'.steps[k] = "repopulate"))
                  => row \in DOMAIN m_cache']_vars
    /\ [](Repopulated =>
              /\ m_cache = <<>>
              /\ \A row \in DOMAIN records, col \in Columns :
                     data(records, m_cache, row, col, "EditRole")
                         = StoreValue(records[row].id, col))

\* An edit through setMessageReadById whose value differs from the value the
\* query fetched.
C21_Witness ==
    /\ call.name = "setMessageReadById"
    /\ \E row \in call.rows :
           /\ records[row].is_read /= call.value
           /\ data(records, m_cache, row, MSG_DB_READ_INDEX, "EditRole") = call.value

\* The fetched rows with the pending edits written over them.
Overlay == [row \in DOMAIN records |-> messageAt(records, m_cache, row)]

\* C22: every read of a cell, in every role and through messageAt, gives for
\* a row with a pending edit what the cached record gives: the read through
\* the cache equals the read of a query that already holds the edits.
C22_EveryReadConsultsCacheFirst ==
    \A row \in DOMAIN m_cache :
        /\ messageAt(records, m_cache, row) = m_cache[row]
        /\ \A col \in Columns, role \in Roles :
               data(records, m_cache, row, col, role) = data(Overlay, <<>>, row, col, role)

\* C23: every loadMessages call ends with a repopulate, so the pending-edit
\* cache is empty and the rows are the ones the filter selects, whether the
\* owning service loaded the item or not; when it did not, the filter matches
\* no message, there is no row, and the failure is notified.
C23_LoadMessagesAlwaysRepopulates ==
    call.name = "loadMessages" =>
        /\ Repopulated
        /\ m_cache = <<>>
        /\ records = selectStatement(messages, filter)
        /\ ~call.result =>
               /\ \A row \in MessageRecords : ~Matches(filter, row)
               /\ Len(records) = 0
               /\ call.notified

\* A failed load of an item that has messages, after an earlier call.
C23_Witness ==
    /\ call.name = "loadMessages"
    /\ ~call.result
    /\ call.no > 1
    /\ \E i \in DOMAIN messages : Matches(m_selectedItem, messages[i])

\* The statements of the message state operations and the steps of a call
\* that are one of them.
Statements == {"markMessagesReadUnread", "markMessageImportant", "switchMessagesImportance",
               "deleteOrRestoreMessagesToFromBin", "permanentlyDeleteMessages"}
StepsOf(c, names) == {k \in DOMAIN c.steps : c.steps[k] \in names}
\* This step is a call of a message state operation that reached its before
\* hook.
StateOperationCalled == call'.no = call.no + 1 /\ call'.answers.asked

\* C24: in every message state operation, a before hook that rejects means
\* that no statement is issued (the store is unchanged), the after hook is
\* not invoked and the operation returns false.
C24_VetoIssuesNoUpdate ==
    [][(StateOperationCalled /\ ~call'.answers.before) =>
           /\ messages' = messages
           /\ StepsOf(call', Statements \cup {"onAfter"}) = {}
           /\ ~call'.result]_vars

\* A vetoed setBatchMessagesDeleted.
C24_Witness ==
    /\ call.name = "setBatchMessagesDeleted"
    /\ call.answers.asked
    /\ ~call.answers.before
    /\ \E row \in call.rows : containsData(m_cache, row)

\* C25: in setMessageRead, setBatchMessagesRead and the two importance
\* operations the cache is written for each affected message before the
\* before hook is invoked, and after a veto the cache holds the edited value
\* of each affected row.
C25_CacheWrittenBeforeHook ==
    [][(/\ StateOperationCalled
        /\ call'.name \in {"setMessageRead", "setBatchMessagesRead",
                           "switchMessageImportance", "switchBatchMessageImportance"}) =>
           /\ call'.steps[1] = "setData"
           /\ \A k \in StepsOf(call', {"setData"}), h \in StepsOf(call', {"onBefore"}) : k < h
           /\ ~call'.answers.before =>
                  \A row \in call'.rows :
                      /\ containsData(m_cache', row)
                      /\ IF call'.name \in {"setMessageRead", "setBatchMessagesRead"}
                         THEN m_cache'[row][MSG_DB_READ_INDEX] = call'.value
                         ELSE m_cache'[row][MSG_DB_IMPORTANT_INDEX]
                                  = 1 - CachedOrQuery(records, m_cache, row,
                                                      MSG_DB_IMPORTANT_INDEX)]_vars

\* C26: in every message state operation, when the before hook accepts and
\* the statement succeeds the after hook is invoked once, as the last step and
\* right after the statement, and its result is the result of the operation;
\* when the statement fails the after hook is not invoked and the operation
\* returns false.
C26_AfterHookOnceAndPropagated ==
    [][StateOperationCalled =>
           /\ (call'.answers.before /\ call'.answers.store) =>
                  /\ StepsOf(call', {"onAfter"}) = {Len(call'.steps)}
                  /\ StepsOf(call', Statements) = {Len(call'.steps) - 1}
                  /\ call'.result = call'.answers.after
           /\ (call'.answers.before /\ ~call'.answers.store) =>
                  /\ StepsOf(call', {"onAfter"}) = {}
                  /\ messages' = messages
                  /\ ~call'.result]_vars

\* A setBatchMessagesRead whose statement succeeded and whose after hook
\* returned false.
C26_Witness ==
    /\ call.name = "setBatchMessagesRead"
    /\ call.answers.before
    /\ call.answers.store
    /\ ~call.answers.after
    /\ ~call.result
    /\ \E row \in call.rows : messages[m_cache[row].id].is_read = call.value

\* The deleted flags of a row as the model shows them.
Shown(q, c, row, col) == data(q, c, row, col, "EditRole")

\* C27: after setBatchMessagesDeleted on a view that is not the recycle bin
\* every affected message is soft-deleted with its permanently-deleted flag
\* unchanged; after setBatchMessagesRestored every affected message has both
\* flags cleared: in the model's rows at once, in the store when the statement
\* was executed.
C27_DeleteAndRestoreFlags ==
    [][StateOperationCalled =>
           \A row \in call'.rows :
               LET id == messageAt(records, m_cache, row).id
               IN /\ (call'.name = "setBatchMessagesDeleted" /\ ~IsRecycleBin(m_selectedItem)) =>
                         /\ Shown(records', m_cache', row, MSG_DB_DELETED_INDEX) = 1
                         /\ Shown(records', m_cache', row, MSG_DB_PDELETED_INDEX)
                                = Shown(records, m_cache, row, MSG_DB_PDELETED_INDEX)
                         /\ call'.answers.store =>
                                /\ messages'[id].is_deleted = 1
                                /\ messages'[id].is_pdeleted = messages[id].is_pdeleted
                  /\ call'.name = "setBatchMessagesRestored" =>
                         /\ Shown(records', m_cache', row, MSG_DB_DELETED_INDEX) = 0
                         /\ Shown(records', m_cache', row, MSG_DB_PDELETED_INDEX) = 0
                         /\ call'.answers.store =>
                                /\ messages'[id].is_deleted = 0
                                /\ messages'[id].is_pdeleted = 0]_vars

\* A message of the feed moved to the bin by a setBatchMessagesDeleted.
C27_Witness ==
    /\ call.name = "setBatchMessagesDeleted"
    /\ m_selectedItem = "Blog"
    /\ call.answers.store
    /\ \E row \in call.rows :
           /\ records[row].is_deleted = 0
           /\ m_cache[row].is_deleted = 1
           /\ messages[records[row].id].is_deleted = 1

\* C28: for every message, in the store and in the rows with a pending edit,
\* permanently-deleted implies soft-deleted.
C28_PdeletedImpliesDeleted ==
    /\ \A i \in DOMAIN messages : messages[i].is_pdeleted = 1 => messages[i].is_deleted = 1
    /\ \A row \in DOMAIN m_cache : m_cache[row].is_pdeleted = 1 => m_cache[row].is_deleted = 1

\* C29: setBatchMessagesDeleted writes the permanently-deleted flag into the
\* cache and persists a purge exactly when the recycle bin is loaded, and
\* writes the soft-deleted flag and persists a move to the bin otherwise; its
\* steps are, in this order, the cache write, the before hook, the statement
\* and the after hook.
C29_DeleteChoicesAgree ==
    call.name = "setBatchMessagesDeleted" =>
        LET purge == IsRecycleBin(m_selectedItem)
            statement == IF purge THEN "permanentlyDeleteMessages"
                         ELSE "deleteOrRestoreMessagesToFromBin"
            pipeline == <<"setData", "onBefore", statement, "onAfter">>
        IN /\ call.column = (IF purge THEN MSG_DB_PDELETED_INDEX ELSE MSG_DB_DELETED_INDEX)
           /\ Len(call.steps) \in 2..4
           /\ call.steps = SubSeq(pipeline, 1, Len(call.steps))
           /\ \A row \in call.rows :
                  /\ m_cache[row][call.column] = 1
                  /\ call.answers.store => messages[m_cache[row].id][call.column] = 1

\* A purge from the loaded recycle bin.
C29_Witness ==
    /\ call.name = "setBatchMessagesDeleted"
    /\ IsRecycleBin(m_selectedItem)
    /\ call.answers.store
    /\ \E row \in call.rows :
           /\ records[row].is_pdeleted = 0
           /\ messages[records[row].id].is_pdeleted = 1

\* The calls that switch the importance.
ImportanceCalls == {"switchMessageImportance", "switchBatchMessageImportance"}

\* C30: a switch of the importance whose hooks accept and whose statement
\* succeeds maps Important to NotImportant and NotImportant to Important for
\* each affected message, in the model's rows and in the store; two such
\* switches of the same rows in a row restore the importance both had.
C30_ImportanceToggles ==
    [][(/\ StateOperationCalled
        /\ call'.name \in ImportanceCalls
        /\ call'.answers.store) =>
           \A row \in call'.rows :
               LET id == messageAt(records, m_cache, row).id
               IN /\ Shown(records', m_cache', row, MSG_DB_IMPORTANT_INDEX)
                         = 1 - Shown(records, m_cache, row, MSG_DB_IMPORTANT_INDEX)
                  /\ messages'[id].is_important = 1 - messages[id].is_important
                  /\ (/\ call.name \in ImportanceCalls
                      /\ call.answers.store
                      /\ call.rows = call'.rows) =>
                         /\ Shown(records', m_cache', row, MSG_DB_IMPORTANT_INDEX)
                                = call.stored[row].cache
                         /\ messages'[id].is_important = call.stored[row].store]_vars


\* ---------------------------------------------------------------- C31
\* The step empties the bin (the user confirmed) or restores it.
BinEmptied == call'.no = call.no + 1 /\ call'.name = "emptyRecycleBin" /\ call'.result
BinRestored == call'.no = call.no + 1 /\ call'.name = "restoreRecycleBin"
HasStep(c, name) == \E k \in DOMAIN c.steps : c.steps[k] = name
\* What emptying and restoring do to the messages of the bin, whatever their
\* feed.
BinPurgedOrRestored ==
    /\ BinEmptied => \A i \in BinMessages : messages'[i].is_pdeleted = 1
    /\ BinRestored => \A i \in BinMessages : messages'[i].is_deleted = 0
\* Both operations refresh the counts of the bin.
BinCountsRefreshed ==
    (BinEmptied \/ BinRestored) => HasStep(call', "RecycleBin::updateCounts")

\* C31: emptying the recycle bin purges every soft-deleted message whatever
\* its feed, restoring it clears the soft-deleted flag of every such message,
\* and after either operation the counts of the bin are refreshed and a
\* full-layout change notification of the feed tree is emitted.
C31_BinOperationsReloadWholeLayout ==
    [][/\ BinPurgedOrRestored
       /\ BinCountsRefreshed
       /\ (BinEmptied \/ BinRestored) => HasStep(call', "layoutChanged")]_vars

\* The part of C31 the code keeps: the messages and the counts of the bin.
C31_BinOperationsAndCounts == [][BinPurgedOrRestored /\ BinCountsRefreshed]_vars

\* The bin held messages of two feeds and was emptied.
C31_WitnessEmptied ==
    /\ call.name = "emptyRecycleBin"
    /\ call.result
    /\ Cardinality({messages[i].feed : i \in call.rows}) = 2
    /\ \A i \in call.rows : messages[i].is_pdeleted = 1

\* ---------------------------------------------------------------- C32
\* This step is the call reassignNodeToNewParent(n, p).
Reassigned(n, p) ==
    /\ n \in Selectable /\ kind[n] \in {"Category", "Feed"} /\ p \in ParentChoices
    /\ op'.name = "reassignNodeToNewParent" /\ op'.node = n /\ op'.target = p
    /\ reassignNodeToNewParent(n, p)
Holders(ch, n) == {m \in Nodes : n \in Range(ch[m])}
\* The call on a child of the new parent changes and emits nothing.
ReassignNoOp(n, p) ==
    parent[n] = p => /\ op'.events = <<>>
                     /\ UNCHANGED treeVars
\* The call on another item: the remove bracket around the detach, then the
\* insert bracket around the append as the last child, and no change of a
\* child list outside the brackets.
ReassignBracketed(n, p) ==
    LET t == reassignNotifications(n, p)
    IN parent[n] /= p =>
        /\ op'.events = <<"beginRemoveRows", "endRemoveRows",
                          "beginInsertRows", "endInsertRows">>
        /\ op'.events = [k \in DOMAIN t |-> t[k].signal]
        /\ t[1].childItems = childItems
        /\ t[2].childItems = ChildrenAfterRemove(childItems, parent[n], n)
        /\ t[3].childItems = t[2].childItems
        /\ t[4].childItems = childItems'
        /\ childItems'[p] = Append(t[3].childItems[p], n)
        /\ parent'[n] = p
\* Whenever an observer is notified, the moved item is in the tree.
ReassignNeverMissing(n, p) ==
    LET t == reassignNotifications(n, p)
    IN \A k \in DOMAIN t : Holders(t[k].childItems, n) /= {}

\* C32: reassignNodeToNewParent changes nothing and emits nothing when the
\* node is already a child of newParent; otherwise it emits a begin/end remove
\* bracket around the detach, then a begin/end insert bracket around the
\* append as last child, every change of a child sequence happens inside a
\* bracket, and no observer is notified of a tree from which the moved node is
\* missing.
C32_ReassignBracketsAndNoMissingNode ==
    [][\A n \in Nodes, p \in Nodes :
          Reassigned(n, p) => /\ ReassignNoOp(n, p)
                              /\ ReassignBracketed(n, p)
                              /\ ReassignNeverMissing(n, p)]_vars

\* The part of C32 the code keeps: the no-op and the two brackets.
C32_ReassignBrackets ==
    [][\A n \in Nodes, p \in Nodes :
          Reassigned(n, p) => ReassignNoOp(n, p) /\ ReassignBracketed(n, p)]_vars

\* A feed was moved under a category.
C32_WitnessMoved ==
    /\ op.name = "reassignNodeToNewParent"
    /\ op.events /= <<>>
    /\ kind[op.node] = "Feed"
    /\ kind[op.target] = "Category"
    /\ parent[op.node] = op.target

\* ---------------------------------------------------------------- C33
\* This step is a call of setMessageRead that returns true.
SetMessageReadReturnedTrue ==
    call'.no = call.no + 1 /\ call'.name = "setMessageRead" /\ call'.result

\* C33: whenever setMessageRead(row, r) returns true, the is_read value of the
\* message of the row in the store equals r, after any preceding operations
\* on the view (an earlier setMessageRead whose update failed and an earlier
\* setMessageReadById included).
C33_TrueMeansStoredRead ==
    [][SetMessageReadReturnedTrue =>
          \A row \in call'.rows :
              messages'[messageAt(records, m_cache, row).id].is_read = call'.value]_vars

\* The same for the calls that reach the before hook: the early return is the
\* only way to a true result without the value in the store.
C33_TrueAfterHooksMeansStoredRead ==
    [][SetMessageReadReturnedTrue /\ call'.answers.asked =>
          \A row \in call'.rows :
              messages'[messageAt(records, m_cache, row).id].is_read = call'.value]_vars

\* ---------------------------------------------------------------- C34
\* This step is a call of switchBatchMessageImportance that returns true.
BatchSwitchReturnedTrue ==
    /\ call'.no = call.no + 1
    /\ call'.name = "switchBatchMessageImportance"
    /\ call'.result
\* The importance the model holds for the row equals the one in the store,
\* after the step.
ImportanceAgrees(row) ==
    data(records', m_cache', row, MSG_DB_IMPORTANT_INDEX, "EditRole")
        = messages'[messageAt(records, m_cache, row).id].is_important

\* C34: whenever switchBatchMessageImportance returns true, the cached
\* importance of every affected row equals the importance of the message in
\* the store, after any preceding operations without a repopulate (earlier
\* switches that were vetoed or whose store update failed included).
C34_TrueMeansCacheEqualsStore ==
    [][BatchSwitchReturnedTrue => \A row \in call'.rows : ImportanceAgrees(row)]_vars

\* The same for a first call on the loaded rows: the model and the store
\* agree when nothing was written to the cache before.
C34_FirstSwitchAgrees ==
    [][BatchSwitchReturnedTrue /\ m_cache = <<>> =>
          \A row \in call'.rows : ImportanceAgrees(row)]_vars

\* ---------------------------------------------------------------- C35
\* This step is the foreach body of mergeModel for a checked category whose
\* addCategory failed: the step that looks the existing category up by
\* new_category->title(), new_category being the node of the failed call.
MergeLookedUpByTitle ==
    /\ merge.pc = "foreach"
    /\ merge.todo /= <<>>
    /\ model.checked[Head(merge.todo)]
    /\ model.kind[Head(merge.todo)] = "Category"
    /\ merge' /= merge
    /\ op'.name = "addCategory"
    /\ ~op'.result

\* C35: mergeModel never reads a node after the node was destroyed: when
\* addCategory fails and destroys the candidate clone, the title for the
\* lookup of the existing category is not read from the destroyed clone (the
\* node whose title is read is a live object and the read cannot fault).
C35_LookupReadsLiveNode ==
    [][MergeLookedUpByTitle => /\ op'.node \in heap'
                               /\ merge'.pc /= "crashed"]_vars

\* ---------------------------------------------------------------- C36
LockEntries == UserEntries \cup {"executeNextAutoUpdate"}
Positions(steps, name) == {k \in DOMAIN steps : steps[k] = name}
\* A function of the feed view holds the lock only while it is in progress.
LockHeldOnlyWhileRunning ==
    /\ lock \in UserEntries => running.active /\ running.name = lock
    /\ ~running.active => lock \in {"free", "other"}
\* A function that took the lock and has returned released it once.
ReturnedAfterOneUnlock ==
    (running.name \in LockEntries /\ ~running.active) =>
        /\ running.steps[1] = "tryLock"
        /\ Cardinality(Positions(running.steps, "unlock")) = 1
\* The tick of the timer emits its request after the unlock.
RequestAfterUnlock ==
    running.name = "executeNextAutoUpdate" =>
        \A i \in Positions(running.steps, "feedsUpdateRequested"),
           j \in Positions(running.steps, "unlock") : j < i

\* C36: addNewCategory, addNewFeed, editSelectedItem, deleteSelectedItem and
\* executeNextAutoUpdate release the lock exactly once on every path on which
\* they return (the returns for an invalid index and for the answer No
\* included), so that the lock is not held by them when none of them is in
\* progress; the tick releases it before the update request is emitted.
C36_LockReleasedOnEveryReturn ==
    /\ LockHeldOnlyWhileRunning
    /\ ReturnedAfterOneUnlock
    /\ RequestAfterUnlock

\* deleteSelectedItem has returned without a removal, the feed is still in the
\* tree and the lock is free.
C36_Witness ==
    /\ running = Running("deleteSelectedItem", FALSE, <<"tryLock", "unlock">>)
    /\ entry.name = "deleteSelectedItem"
    /\ op.name /= "removeItem"
    /\ FeedNode(1) \in heap
    /\ lock = "free"

\* A tick of the timer has released the lock and then requested an update.
C36_WitnessTick ==
    running = Running("executeNextAutoUpdate", FALSE,
                      <<"tryLock", "unlock", "feedsUpdateRequested">>)

\* ---------------------------------------------------------------- C37
\* The default filter is loaded and the model has no item: the state after
\* the construction and after loadMessages(nullptr).
DefaultFilterLoaded ==
    m_selectedItem = "nullptr" /\ filter = DEFAULT_SQL_MESSAGES_FILTER

\* C37: a message state operation (set read, switch importance, delete,
\* restore; single and batch) invoked while the default filter is loaded
\* completes and returns a boolean, without needing an owning node.
C37_OperationsCompleteWithoutItem ==
    [][DefaultFilterLoaded /\ records /= <<>> =>
          /\ pc' /= "crashed"
          /\ call'.result \in BOOLEAN]_vars

\* ---------------------------------------------------------------- C38
\* This step is a tick of the timer that got the lock.
Ticked == passNo' = passNo + 1
\* The feeds that have the interval of the global auto-update as their own and
\* started it with updateAutoUpdateStatus.
FeedsOfGlobalInterval ==
    {f \in heap : /\ kind[f] = "Feed"
                  /\ autoUpdateType[f] = "SpecificAutoUpdate"
                  /\ autoUpdateInitialInterval[f] = globalAutoUpdate.initial
                  /\ startRemaining[f] = globalAutoUpdate.initial}

\* C38: with the global auto-update enabled and an interval of N >= 1,
\* autoUpdateNow is true on exactly the ticks N, 2N, 3N, ... after
\* updateAutoUpdateStatus (every tick getting the lock), which are the ticks on
\* which a SpecificInterval feed with initial = N is due, and the global
\* remaining counter is within 0..N after every tick.
C38_GlobalCadenceEveryNthTick ==
    [][Ticked /\ globalAutoUpdate.enabled =>
          /\ auto_update_now' <=> (passNo' % globalAutoUpdate.initial = 0)
          /\ \A f \in FeedsOfGlobalInterval :
                 auto_update_now' <=> (f \in Range(feeds_for_update'))
          /\ globalAutoUpdate'.remaining \in 0..globalAutoUpdate.initial]_vars

\* What the code does: the counter runs N, N - 1, ..., 0 and is restarted by
\* the tick after the one that found 0, so that autoUpdateNow is true on the
\* ticks N, 2N + 1, 3N + 2, ...
C38_GlobalCadenceEveryNPlusOneTicks ==
    [][Ticked /\ globalAutoUpdate.enabled =>
          /\ auto_update_now'
                 <=> (passNo' % (globalAutoUpdate.initial + 1) = globalAutoUpdate.initial)
          /\ globalAutoUpdate'.remaining \in 0..globalAutoUpdate.initial]_vars

\* ---------------------------------------------------------------- C39
\* The feeds with an interval of their own.
SpecificFeeds ==
    {f \in heap : kind[f] = "Feed" /\ autoUpdateType[f] = "SpecificAutoUpdate"}
\* The feeds carried by the request the tick emitted.
Requested(r) ==
    IF Positions(r.steps, "feedsUpdateRequested") /= {} THEN Range(feeds_for_update') ELSE {}

\* C39: with the global auto-update disabled the timer still ticks: a
\* SpecificInterval feed with initial = n is carried in an emitted request on
\* every n-th tick that gets the lock, updateAutoUpdateStatus never changes
\* the remaining interval of a feed, and a request is emitted on a tick if and
\* only if the decision pass of the tick returned a non-empty list.
C39_FeedsDueWithGlobalDisabled ==
    [][/\ (Ticked /\ ~globalAutoUpdate.enabled) =>
              /\ \A f \in SpecificFeeds :
                     (f \in Requested(running'))
                         <=> (/\ passNo' >= startRemaining[f]
                              /\ (passNo' - startRemaining[f])
                                     % autoUpdateInitialInterval[f] = 0)
              /\ ~auto_update_now'
       /\ Ticked =>
              /\ (Positions(running'.steps, "feedsUpdateRequested") /= {})
                     <=> (feeds_for_update' /= <<>>)
              /\ entry'.emitted = feeds_for_update'
       /\ ~Ticked => UNCHANGED autoUpdateRemainingInterval]_vars

\* With the global auto-update disabled, a feed with an interval of 2 that
\* started it anew is requested on the fourth tick.
C39_Witness ==
    /\ ~globalAutoUpdate.enabled
    /\ passNo = 4
    /\ \E f \in SpecificFeeds :
           /\ autoUpdateInitialInterval[f] = 2
           /\ startRemaining[f] = 2
           /\ feeds_for_update = <<f>>
           /\ entry.emitted = <<f>>
    /\ running.steps = <<"tryLock", "unlock", "feedsUpdateRequested">>

\* ---------------------------------------------------------------- C40
\* The feeds under any of the indexes of the last call.
FeedsUnder(indexes) == UNION {Range(feedsForItem(indexes[k])) : k \in DOMAIN indexes}

\* C40: feedsForIndexes returns every feed under any of the given indexes
\* exactly once; the result has no duplicate feed for any selection.
C40_EveryFeedOnce ==
    op.name = "feedsForIndexes" =>
        /\ Range(op.feeds) = FeedsUnder(op.indexes)
        /\ \A f \in Range(op.feeds) : Occurrences(op.feeds, f) = 1

\* The feeds returned are the ones under the indexes, whatever their number.
C40_EveryFeedReturned ==
    op.name = "feedsForIndexes" => Range(op.feeds) = FeedsUnder(op.indexes)
====
